---- MODULE Spec2Model ----
(***************************************************************************)
(* A model of type-guard-map: the TypeHelper generation (src/src/lib.ts    *)
(* lines 272-611, src/src/atomic.ts, the ErrBuilder of                     *)
(* src/unnamed/part_005) and the guard-map generation's checkWithMap       *)
(* (src/unnamed/part_005).                                                 *)
(*                                                                         *)
(* JavaScript values are tagged records; a validator (TypeHelper) is the   *)
(* tree of the combinators that built it, and InnerGuard interprets that   *)
(* tree the way the closures of TypeHelperImpl run.  Every result carries  *)
(* the list of the child validations the outermost combinator made, in the *)
(* order it made them (field "calls"), so that evaluation order and        *)
(* short-circuiting are observable.                                        *)
(***************************************************************************)
EXTENDS Integers, Sequences, FiniteSets, TLC

VARIABLES
    last,       \* the record of the last API call: operation, arguments, outcome
    heap,       \* object identity -> current content of the object
    defaultRef, \* identity of the caller's default object D
    returned,   \* identities handed out by parseWithDefault, in call order
    log         \* the calls made so far, in order: on the ErrBuilder the caller
                \* holds, or the validation calls with their outcomes

vars == <<last, heap, defaultRef, returned, log>>

(***************************************************************************)
(* Bounds of the model.                                                    *)
(***************************************************************************)
MaxLen == 3          \* longest input array
MaxFields == 2       \* most fields in a declared field map
MaxTuple == 2        \* most positions of a tuple validator
MaxKeys == 2         \* most own keys of an input object
MaxCalls == 2        \* most parseWithDefault calls in one behaviour
IndexKeyLimit == 2   \* property names "0" .. "2" are the array-index names
MaxSegs == 3         \* most errIn calls on one ErrBuilder
MaxRenders == 2      \* most toError calls on one ErrBuilder
MaxClones == 2       \* most successful clone calls in one behaviour
MaxHelpers == 4      \* most validator objects alive in one behaviour

(***************************************************************************)
(* JavaScript values.                                                      *)
(***************************************************************************)
Undef == [k |-> "undefined"]
Null == [k |-> "null"]
Str(s) == [k |-> "string", s |-> s]
Num(n) == [k |-> "number", n |-> n]
Bool(b) == [k |-> "boolean", b |-> b]
Arr(items) == [k |-> "array", items |-> items]
\* entries: the own enumerable properties [key, val] in own-property-key order
Obj(entries) == [k |-> "object", entries |-> entries]

\* The values JSON has no text for.  A Date is the object new Date(iso); Cyclic
\* is the object o made by o = {}; o.self = o.
BigInt(n) == [k |-> "bigint", n |-> n]
Sym == [k |-> "symbol"]
Fn == [k |-> "function"]
DateOf(iso) == [k |-> "date", iso |-> iso]
Cyclic == [k |-> "cyclic"]

\* typeof v
TypeOf(v) ==
    IF v.k \in {"null", "array", "object", "date", "cyclic"} THEN "object" ELSE v.k

\* Array.isArray(v)
IsArray(v) == v.k = "array"

\* a check that lets plain objects through and no arrays
IsPlainObjectOnly(v) == v.k = "object"

\* typeof v === "object" && v !== null
IsPartialUnknown(v) == TypeOf(v) = "object" /\ v.k # "null"

\* A property name is an array index when it is the canonical text of an integer.
IsIndexKey(key) == \E i \in 0..IndexKeyLimit : ToString(i) = key

RECURSIVE IndexEntries(_, _)
\* the entries of decl under array-index names, in ascending numeric order
IndexEntries(decl, i) ==
    IF i > IndexKeyLimit THEN <<>>
    ELSE SelectSeq(decl, LAMBDA en : en.key = ToString(i)) \o IndexEntries(decl, i + 1)

\* The own-property-key order of an object whose properties were created in the
\* order of decl (an object literal, or JSON.parse of a text): array-index names
\* first in ascending numeric order, then the other names in creation order.
OwnPropertyOrder(decl) ==
    IndexEntries(decl, 0) \o SelectSeq(decl, LAMBDA en : ~IsIndexKey(en.key))

\* the object literal { k1: v1, ..., kn: vn } (distinct names)
ObjectLiteral(decl) == Obj(OwnPropertyOrder(decl))

\* Object.entries(v) of a non-null object or an array
ObjectEntries(v) ==
    CASE v.k = "array" ->
            [i \in 1..Len(v.items) |-> [key |-> ToString(i - 1), val |-> v.items[i]]]
      [] v.k = "date" -> <<>>
      [] v.k = "cyclic" -> <<[key |-> "self", val |-> v]>>
      [] OTHER -> v.entries

\* v[key] of a non-null object or an array (own properties only)
Get(v, key) ==
    IF v.k = "date" THEN Undef
    ELSE IF v.k = "cyclic" THEN (IF key = "self" THEN v ELSE Undef)
    ELSE IF v.k = "array"
    THEN IF \E i \in 1..Len(v.items) : ToString(i - 1) = key
         THEN v.items[CHOOSE i \in 1..Len(v.items) : ToString(i - 1) = key]
         ELSE IF key = "length" THEN Num(Len(v.items)) ELSE Undef
    ELSE IF \E i \in 1..Len(v.entries) : v.entries[i].key = key
         THEN v.entries[CHOOSE i \in 1..Len(v.entries) : v.entries[i].key = key].val
         ELSE Undef

(***************************************************************************)
(* JSON.stringify, and the two string coercions its result goes through.   *)
(***************************************************************************)
RECURSIVE JsonText(_)
RECURSIVE JsonItems(_, _)
RECURSIVE JsonProps(_, _, _)

\* the kinds JSON.stringify has no text for and does not throw on
NoJsonText(v) == v.k \in {"undefined", "symbol", "function"}

\* the items of an array from position i on, comma separated; undefined is null
JsonItems(items, i) ==
    IF i > Len(items) THEN ""
    ELSE (IF i > 1 THEN "," ELSE "")
         \o (IF NoJsonText(items[i]) THEN "null" ELSE JsonText(items[i]))
         \o JsonItems(items, i + 1)

\* the properties from position i on; a property whose value is undefined is left out
JsonProps(entries, i, first) ==
    IF i > Len(entries) THEN ""
    ELSE IF NoJsonText(entries[i].val) THEN JsonProps(entries, i + 1, first)
    ELSE (IF first THEN "" ELSE ",")
         \o "\"" \o entries[i].key \o "\":" \o JsonText(entries[i].val)
         \o JsonProps(entries, i + 1, FALSE)

\* the JSON text of a value other than undefined
JsonText(v) ==
    CASE v.k = "null" -> "null"
      [] v.k = "string" -> "\"" \o v.s \o "\""
      [] v.k = "number" -> ToString(v.n)
      [] v.k = "boolean" -> (IF v.b THEN "true" ELSE "false")
      [] v.k = "array" -> "[" \o JsonItems(v.items, 1) \o "]"
      [] v.k = "object" -> "{" \o JsonProps(v.entries, 1, TRUE) \o "}"
      [] v.k = "date" -> "\"" \o v.iso \o "\""

RECURSIVE StringifyThrows(_)
\* JSON.stringify(v) throws a TypeError: a BigInt or a cycle anywhere in v
StringifyThrows(v) ==
    CASE v.k \in {"bigint", "cyclic"} -> TRUE
      [] v.k = "array" -> \E i \in 1..Len(v.items) : StringifyThrows(v.items[i])
      [] v.k = "object" ->
            \E i \in 1..Len(v.entries) : StringifyThrows(v.entries[i].val)
      [] OTHER -> FALSE

\* the message of the TypeError JSON.stringify throws
TypeErrorMessage(v) ==
    IF v.k = "bigint" THEN "Do not know how to serialize a BigInt"
    ELSE "Converting circular structure to JSON"

\* JSON.stringify(v) when it does not throw: a string, or undefined for
\* undefined, a symbol and a function
JSONstringify(v) == IF NoJsonText(v) THEN Undef ELSE Str(JsonText(v))

\* `${x}` of a string or undefined
TemplateStr(x) == IF x.k = "undefined" THEN "undefined" ELSE x.s

(***************************************************************************)
(* ErrBuilderImpl, leafErr, leafExpect.                                    *)
(***************************************************************************)
\* new ErrBuilderImpl(message)
ErrBuilderImpl(message) == [message |-> message, stackRev |-> <<>>]

\* the builder field of a result that is Ok
NoErr == ErrBuilderImpl("")

\* an errIn that puts the new segment in front of the stored ones
ErrInFront(e, key) == [e EXCEPT !.stackRev = <<key>> \o @]

\* e.errIn(key): push, the same builder comes back
ErrIn(e, key) == [e EXCEPT !.stackRev = Append(@, key)]

Reverse(s) == [i \in 1..Len(s) |-> s[Len(s) + 1 - i]]

\* String(segment): a field name or an index
SegStr(seg) == IF seg.k = "number" THEN ToString(seg.n) ELSE seg.s

RECURSIVE JoinDot(_, _)
\* segs.join(".") from position i on
JoinDot(segs, i) ==
    IF i > Len(segs) THEN ""
    ELSE (IF i > 1 THEN "." ELSE "") \o SegStr(segs[i]) \o JoinDot(segs, i + 1)

\* e.asFullMessage(): the text it returns
AsFullMessage(e) ==
    IF Len(e.stackRev) = 0 THEN e.message
    ELSE "in " \o JoinDot(Reverse(e.stackRev), 1) \o ": " \o e.message

\* e.asFullMessage(): the builder it leaves behind (Array.prototype.reverse is in place)
AfterRender(e) ==
    IF Len(e.stackRev) = 0 THEN e ELSE [e EXCEPT !.stackRev = Reverse(@)]

\* e.toError().message
ToErrorMessage(e) == AsFullMessage(e)

\* const r = x; F(r): x is evaluated once, before F runs
Bind(x, F(_)) == CHOOSE y \in {F(r) : r \in {x}} : TRUE

\* fin(), err(e): results without the observation of the child calls
Fin == [ok |-> TRUE, e |-> NoErr, threw |-> FALSE]
Err(e) == [ok |-> FALSE, e |-> e, threw |-> FALSE]

\* no result: an exception is in flight, e.message is the message it carries
Thrown(message) == [ok |-> FALSE, e |-> ErrBuilderImpl(message), threw |-> TRUE]

\* leafErr(message)
LeafErr(message) == Err(ErrBuilderImpl(message))

\* leafExpect(expectStr, v): the template string is built before leafErr is called
LeafExpect(expectStr, v) ==
    IF StringifyThrows(v) THEN Thrown(TypeErrorMessage(v))
    ELSE LeafErr("Expected " \o expectStr \o ", got " \o TemplateStr(JSONstringify(v)))

\* a result together with the child validations made to reach it
WithCalls(res, calls) ==
    [ok |-> res.ok, e |-> res.e, calls |-> calls, threw |-> res.threw]

\* one child validation: where (segment or operand), on what, and its outcome
Call(seg, v, ok) == [seg |-> seg, v |-> v, ok |-> ok]

(***************************************************************************)
(* Validators.  A TypeHelper is the tree of the calls that built it.       *)
(***************************************************************************)
Atomic(name) == [t |-> "atomic", name |-> name]
Literal(args) == [t |-> "literal", args |-> args]
OrH(self, other) == [t |-> "or", self |-> self, other |-> other]
AndH(self, other) == [t |-> "and", self |-> self, other |-> other]
MergeH(self, other) == [t |-> "merge", self |-> self, other |-> other]
OptH(self) == [t |-> "opt", self |-> self]
OrNullH(self) == [t |-> "orNull", self |-> self]
ArrH(self) == [t |-> "arr", self |-> self]
RecH(self) == [t |-> "rec", self |-> self]
CondH(self, f) == [t |-> "cond", self |-> self, f |-> f]
\* struct(fields), fields being the object literal the caller wrote as decl
StructH(decl) == [t |-> "struct", decl |-> decl, fields |-> ObjectLiteral(decl)]
TupleH(helpers) == [t |-> "tuple", helpers |-> helpers]

\* createHelper((v) => v instanceof Date ? fin() : leafExpect("Date", v))
DDate == [t |-> "instanceof", name |-> "Date"]

DString == Atomic("string")
DNumber == Atomic("number")
DBoolean == Atomic("boolean")
DUndefined == Atomic("undefined")

RECURSIVE InnerGuard(_, _)

\* H.validateBase(v): the check's outcome, with v itself as the value when Ok
ValidateBase(H, v) ==
    Bind(InnerGuard(H, v), LAMBDA r :
        [ok |-> r.ok, e |-> r.e, calls |-> r.calls, v |-> IF r.ok THEN v ELSE Undef,
         threw |-> r.threw])

\* an atomic check that takes null for undefined
AtomicGuardNullAsUndefined(name, v) ==
    LET typeName == IF v.k = "null" THEN "undefined" ELSE TypeOf(v)
    IN  IF typeName = name THEN WithCalls(Fin, <<>>)
        ELSE WithCalls(LeafExpect(name, v), <<>>)

\* atomic(name)
AtomicGuard(name, v) ==
    LET typeName == TypeOf(v)
    IN  IF typeName = name THEN WithCalls(Fin, <<>>)
        ELSE WithCalls(LeafExpect(name, v), <<>>)

RECURSIVE JoinCommaJson(_, _)
\* args.map((v) => JSON.stringify(v)).join(", "): join renders undefined as ""
JoinCommaJson(args, i) ==
    IF i > Len(args) THEN ""
    ELSE (IF i > 1 THEN ", " ELSE "")
         \o (IF args[i].k = "undefined" THEN "" ELSE JsonText(args[i]))
         \o JoinCommaJson(args, i + 1)

\* literal(...args)
LiteralGuard(args, v) ==
    IF \E i \in 1..Len(args) : v = args[i] THEN WithCalls(Fin, <<>>)
    ELSE WithCalls(LeafExpect("one of " \o JoinCommaJson(args, 1), v), <<>>)

\* an or whose message joins the bare messages of the alternatives
OrGuardBareMessages(self, other, v) ==
    LET resT == InnerGuard(self, v)
        c1 == <<Call(Str("self"), v, resT.ok)>>
    IN  IF resT.ok THEN WithCalls(Fin, c1)
        ELSE LET resU == ValidateBase(other, v)
                 c2 == Append(c1, Call(Str("other"), v, resU.ok))
             IN  IF resU.ok THEN WithCalls(Fin, c2)
                 ELSE WithCalls(
                          LeafErr("(" \o resT.e.message \o ") and ("
                                      \o resU.e.message \o ")"),
                          c2)

\* self.or(other)
\* an or that joins the two messages without grouping them
OrGuardFlat(self, other, v) ==
    Bind(InnerGuard(self, v), LAMBDA resT :
        LET c1 == <<Call(Str("self"), v, resT.ok)>>
        IN  IF resT.ok THEN WithCalls(Fin, c1)
            ELSE Bind(ValidateBase(other, v), LAMBDA resU :
                LET c2 == Append(c1, Call(Str("other"), v, resU.ok))
                IN  IF resU.ok THEN WithCalls(Fin, c2)
                    ELSE WithCalls(
                             LeafErr(ToErrorMessage(resT.e) \o " and "
                                         \o ToErrorMessage(resU.e)),
                             c2)))

OrGuard(self, other, v) ==
    Bind(InnerGuard(self, v), LAMBDA resT :
        LET c1 == <<Call(Str("self"), v, resT.ok)>>
        IN  IF resT.ok THEN WithCalls(Fin, c1)
            ELSE IF resT.threw THEN WithCalls(resT, c1)
            ELSE Bind(ValidateBase(other, v), LAMBDA resU :
                LET c2 == Append(c1, Call(Str("other"), v, resU.ok))
                IN  IF resU.ok THEN WithCalls(Fin, c2)
                    ELSE IF resU.threw THEN WithCalls(resU, c2)
                    ELSE WithCalls(
                             LeafErr("(" \o ToErrorMessage(resT.e) \o ") and ("
                                         \o ToErrorMessage(resU.e) \o ")"),
                             c2)))

\* a merge that checks other first
MergeGuardOtherFirst(self, other, v) ==
    LET resU == ValidateBase(other, v)
        c1 == <<Call(Str("other"), v, resU.ok)>>
    IN  IF ~resU.ok THEN WithCalls(Err(resU.e), c1)
        ELSE LET resT == InnerGuard(self, v)
                 c2 == Append(c1, Call(Str("self"), v, resT.ok))
             IN  IF ~resT.ok THEN WithCalls(resT, c2)
                 ELSE WithCalls(Fin, c2)

\* self.and(other)
AndGuard(self, other, v) ==
    Bind(InnerGuard(self, v), LAMBDA resT :
        LET c1 == <<Call(Str("self"), v, resT.ok)>>
        IN  IF ~resT.ok THEN WithCalls(resT, c1)
            ELSE Bind(ValidateBase(other, v), LAMBDA resU :
                LET c2 == Append(c1, Call(Str("other"), v, resU.ok))
                IN  IF ~resU.ok THEN WithCalls(resU, c2)
                    ELSE WithCalls(Fin, c2)))

\* self.merge(other)
MergeGuard(self, other, v) ==
    Bind(InnerGuard(self, v), LAMBDA resT :
        LET c1 == <<Call(Str("self"), v, resT.ok)>>
        IN  IF ~resT.ok THEN WithCalls(resT, c1)
            ELSE Bind(ValidateBase(other, v), LAMBDA resU :
                LET c2 == Append(c1, Call(Str("other"), v, resU.ok))
                IN  IF ~resU.ok THEN WithCalls(resU, c2)
                    ELSE WithCalls(Fin, c2)))

\* an opt that takes null for an absent value as well
OptGuardNullish(self, v) ==
    IF v = Undef \/ v = Null THEN WithCalls(Fin, <<>>)
    ELSE LET r == InnerGuard(self, v)
         IN  WithCalls(r, <<Call(Str("self"), v, r.ok)>>)

\* self.opt()
OptGuard(self, v) ==
    IF v = Undef THEN WithCalls(Fin, <<>>)
    ELSE Bind(InnerGuard(self, v), LAMBDA r :
             WithCalls(r, <<Call(Str("self"), v, r.ok)>>))

\* self.orNull()
OrNullGuard(self, v) ==
    IF v = Null THEN WithCalls(Fin, <<>>)
    ELSE Bind(InnerGuard(self, v), LAMBDA r :
             WithCalls(r, <<Call(Str("self"), v, r.ok)>>))

RECURSIVE ArrLoopNoStop(_, _, _, _)
\* an array loop that goes on after a failing element and reports the last one
ArrLoopNoStop(self, v, id, calls) ==
    IF id >= Len(v.items) THEN WithCalls(Fin, calls)
    ELSE LET item == v.items[id + 1]
             res == InnerGuard(self, item)
             c2 == Append(calls, Call(Num(id), item, res.ok))
             rest == ArrLoopNoStop(self, v, id + 1, c2)
         IN  IF ~res.ok /\ rest.ok
             THEN WithCalls(Err(ErrIn(res.e, Num(id))), rest.calls)
             ELSE rest

RECURSIVE ArrLoop(_, _, _, _)
\* for (const [id, item] of v.entries()), from index id on
ArrLoop(self, v, id, calls) ==
    IF id >= Len(v.items) THEN WithCalls(Fin, calls)
    ELSE LET item == v.items[id + 1]
         IN  Bind(InnerGuard(self, item), LAMBDA res :
                 LET c2 == Append(calls, Call(Num(id), item, res.ok))
                 IN  IF res.threw THEN WithCalls(res, c2)
                     ELSE IF ~res.ok THEN WithCalls(Err(ErrIn(res.e, Num(id))), c2)
                     ELSE ArrLoop(self, v, id + 1, c2))

\* self.arr()
ArrGuard(self, v) ==
    IF ~IsArray(v) THEN WithCalls(LeafErr("Expected array"), <<>>)
    ELSE ArrLoop(self, v, 0, <<>>)

RECURSIVE RecLoopNoSegment(_, _, _, _)
\* a record loop that returns the failing value's error without errIn(key)
RecLoopNoSegment(self, entries, n, calls) ==
    IF n > Len(entries) THEN WithCalls(Fin, calls)
    ELSE LET key == entries[n].key
             item == entries[n].val
             res == InnerGuard(self, item)
             c2 == Append(calls, Call(Str(key), item, res.ok))
         IN  IF ~res.ok THEN WithCalls(Err(res.e), c2)
             ELSE RecLoopNoSegment(self, entries, n + 1, c2)

RECURSIVE RecLoop(_, _, _, _)
\* for (const [key, item] of Object.entries(v)), from the n-th entry on
RecLoop(self, entries, n, calls) ==
    IF n > Len(entries) THEN WithCalls(Fin, calls)
    ELSE LET key == entries[n].key
             item == entries[n].val
         IN  Bind(InnerGuard(self, item), LAMBDA res :
                 LET c2 == Append(calls, Call(Str(key), item, res.ok))
                 IN  IF res.threw THEN WithCalls(res, c2)
                     ELSE IF ~res.ok THEN WithCalls(Err(ErrIn(res.e, Str(key))), c2)
                     ELSE RecLoop(self, entries, n + 1, c2))

\* self.rec()
RecGuard(self, v) ==
    IF TypeOf(v) # "object" \/ v = Null THEN WithCalls(LeafErr("Expected object"), <<>>)
    ELSE RecLoop(self, ObjectEntries(v), 1, <<>>)

\* the validator the refinement "nested" asks: struct({ a: DNumber })
DInner == StructH(<<[key |-> "a", val |-> DNumber]>>)

\* the refinement functions of the tests and examples, by name, one that is
\* defined on every value, and one that runs another validator from inside:
\* (v) => DInner.guard(v) ? fin() : leafErr("not an A")
Refine(f, v) ==
    CASE f = "nonEmpty" ->
            IF Len(v.items) = 0 THEN LeafErr("Messages should not be empty") ELSE Fin
      [] f = "positive" ->
            IF v.n > 0 THEN Fin ELSE LeafErr("Expected positive number")
      [] f = "fieldPositive" ->
            IF Get(v, "a").n > 0 THEN Fin
            ELSE Err(ErrIn(ErrBuilderImpl("Expected positive number"), Str("a")))
      [] f = "notX" ->
            IF v = Str("x") THEN LeafErr("x is not allowed") ELSE Fin
      [] f = "nested" ->
            IF ValidateBase(DInner, v).ok THEN Fin ELSE LeafErr("not an A")

\* a cond that reports a refinement failure one level down
CondGuardWithSegment(self, f, v) ==
    LET r == ValidateBase(self, v)
        c1 == <<Call(Str("self"), v, r.ok)>>
    IN  IF ~r.ok THEN WithCalls(Err(r.e), c1)
        ELSE LET q == Refine(f, v)
             IN  WithCalls(IF q.ok THEN q ELSE Err(ErrIn(q.e, Str("cond"))),
                           Append(c1, Call(Str("refine"), v, q.ok)))

\* self.cond(f): this.validateBase(v).andThen(f)
CondGuard(self, f, v) ==
    Bind(ValidateBase(self, v), LAMBDA r :
        LET c1 == <<Call(Str("self"), v, r.ok)>>
        IN  IF ~r.ok THEN WithCalls(r, c1)
            ELSE Bind(Refine(f, v), LAMBDA q :
                     WithCalls(q, Append(c1, Call(Str("refine"), v, q.ok)))))

RECURSIVE StructLoopNoStop(_, _, _, _)
\* a field loop that goes on after a failing field and reports the last one
StructLoopNoStop(entries, v, n, calls) ==
    IF n > Len(entries) THEN WithCalls(Fin, calls)
    ELSE LET key == entries[n].key
             helper == entries[n].val
             value == Get(v, key)
             result == ValidateBase(helper, value)
             c2 == Append(calls, Call(Str(key), value, result.ok))
             rest == StructLoopNoStop(entries, v, n + 1, c2)
         IN  IF ~result.ok /\ rest.ok
             THEN WithCalls(Err(ErrIn(result.e, Str(key))), rest.calls)
             ELSE rest

RECURSIVE StructLoop(_, _, _, _)
\* for (const [key, helper] of Object.entries(fields)), from the n-th entry on
StructLoop(entries, v, n, calls) ==
    IF n > Len(entries) THEN WithCalls(Fin, calls)
    ELSE LET key == entries[n].key
             helper == entries[n].val
             value == Get(v, key)
         IN  Bind(ValidateBase(helper, value), LAMBDA result :
                 LET c2 == Append(calls, Call(Str(key), value, result.ok))
                 IN  IF result.threw THEN WithCalls(result, c2)
                     ELSE IF ~result.ok
                     THEN WithCalls(Err(ErrIn(result.e, Str(key))), c2)
                     ELSE StructLoop(entries, v, n + 1, c2))

\* struct(fields)
StructGuard(fields, v) ==
    IF ~IsPartialUnknown(v) THEN WithCalls(LeafExpect("struct", v), <<>>)
    ELSE StructLoop(ObjectEntries(fields), v, 1, <<>>)

RECURSIVE TupleLoopOffByOne(_, _, _, _)
\* a position loop that names the failing position one too high
TupleLoopOffByOne(helpers, v, i, calls) ==
    IF ~(i < Len(helpers)) THEN WithCalls(Fin, calls)
    ELSE LET value == v.items[i + 1]
             result == ValidateBase(helpers[i + 1], value)
             c2 == Append(calls, Call(Num(i), value, result.ok))
         IN  IF ~result.ok THEN WithCalls(Err(ErrIn(result.e, Num(i + 1))), c2)
             ELSE TupleLoopOffByOne(helpers, v, i + 1, c2)

RECURSIVE TupleLoop(_, _, _, _)
\* for (let i = 0; i < helpers.length; i++), from i on
TupleLoop(helpers, v, i, calls) ==
    IF ~(i < Len(helpers)) THEN WithCalls(Fin, calls)
    ELSE LET value == v.items[i + 1]
         IN  Bind(ValidateBase(helpers[i + 1], value), LAMBDA result :
                 LET c2 == Append(calls, Call(Num(i), value, result.ok))
                 IN  IF result.threw THEN WithCalls(result, c2)
                     ELSE IF ~result.ok
                     THEN WithCalls(Err(ErrIn(result.e, Num(i))), c2)
                     ELSE TupleLoop(helpers, v, i + 1, c2))

\* a tuple that only asks for at least helpers.length items
TupleGuardAtLeast(helpers, v) ==
    IF ~IsArray(v) THEN WithCalls(LeafExpect("tuple", v), <<>>)
    ELSE IF Len(v.items) < Len(helpers)
         THEN WithCalls(
                  LeafErr("tuple length " \o ToString(Len(helpers)) \o ", got "
                              \o ToString(Len(v.items))),
                  <<>>)
         ELSE TupleLoop(helpers, v, 0, <<>>)

\* tuple(...helpers)
TupleGuard(helpers, v) ==
    IF ~IsArray(v) THEN WithCalls(LeafExpect("tuple", v), <<>>)
    ELSE IF Len(v.items) # Len(helpers)
         THEN WithCalls(
                  LeafErr("tuple length " \o ToString(Len(helpers)) \o ", got "
                              \o ToString(Len(v.items))),
                  <<>>)
         ELSE TupleLoop(helpers, v, 0, <<>>)

\* the check of DDate
InstanceOfGuard(name, v) ==
    IF name = "Date" /\ v.k = "date" THEN WithCalls(Fin, <<>>)
    ELSE WithCalls(LeafExpect(name, v), <<>>)

\* the innerGuard closure of a TypeHelperImpl
InnerGuard(H, v) ==
    CASE H.t = "atomic" -> AtomicGuard(H.name, v)
      [] H.t = "instanceof" -> InstanceOfGuard(H.name, v)
      [] H.t = "literal" -> LiteralGuard(H.args, v)
      [] H.t = "or" -> OrGuard(H.self, H.other, v)
      [] H.t = "and" -> AndGuard(H.self, H.other, v)
      [] H.t = "merge" -> MergeGuard(H.self, H.other, v)
      [] H.t = "opt" -> OptGuard(H.self, v)
      [] H.t = "orNull" -> OrNullGuard(H.self, v)
      [] H.t = "arr" -> ArrGuard(H.self, v)
      [] H.t = "rec" -> RecGuard(H.self, v)
      [] H.t = "cond" -> CondGuard(H.self, H.f, v)
      [] H.t = "struct" -> StructGuard(H.fields, v)
      [] H.t = "tuple" -> TupleGuard(H.helpers, v)

(***************************************************************************)
(* The terminal operations of TypeHelperImpl.                              *)
(***************************************************************************)
\* H.validate(v): validateBase(v).mapErr((e) => e.toError())
Validate(H, v) ==
    Bind(ValidateBase(H, v), LAMBDA r :
        [ok |-> r.ok, v |-> r.v, threw |-> r.threw,
         err |-> IF r.ok THEN "" ELSE IF r.threw THEN r.e.message
                 ELSE ToErrorMessage(r.e)])

\* a guard that reports the bare message of the failure, without its path
GuardBareMessage(H, v, hasOnErr) ==
    LET result == ValidateBase(H, v)
    IN  IF result.ok THEN [ret |-> TRUE, onErr |-> <<>>, threw |-> FALSE]
        ELSE [ret |-> FALSE, threw |-> result.threw,
              onErr |-> IF hasOnErr THEN <<result.e.message>> ELSE <<>>]

\* H.guard(v, onErr): the boolean, and the messages onErr was called with
Guard(H, v, hasOnErr) ==
    Bind(ValidateBase(H, v), LAMBDA result :
        IF result.ok THEN [ret |-> TRUE, onErr |-> <<>>, threw |-> FALSE]
        ELSE IF result.threw THEN [ret |-> FALSE, onErr |-> <<>>, threw |-> TRUE]
        ELSE [ret |-> FALSE, threw |-> FALSE,
              onErr |-> IF hasOnErr THEN <<ToErrorMessage(result.e)>> ELSE <<>>])

(***************************************************************************)
(* The guard-map generation: checkWithMap and the guards it is given.      *)
(* A result is the boolean and the messages passed to onError, in order.   *)
(***************************************************************************)
MapName(name) == [t |-> "name", name |-> name]
MapFn(g, map) == [t |-> "fn", g |-> g, map |-> map]
MapObject(decl) == [t |-> "map", decl |-> decl, fields |-> ObjectLiteral(decl)]

\* msgs.map((msg) => prefix + msg)
Prefixed(prefix, msgs) == [i \in 1..Len(msgs) |-> prefix \o msgs[i]]

RECURSIVE CheckWithMap(_, _)
RECURSIVE MapLoop(_, _, _, _)
RECURSIVE ArrayOfLoop(_, _, _, _)

\* checkAtomicType(v, name)
CheckAtomicType(v, name) == TypeOf(v) = name

\* for (const [id, item] of v.entries()) of isArrayOf, from index id on
ArrayOfLoop(map, v, id, msgs) ==
    IF id >= Len(v.items) THEN [ret |-> TRUE, msgs |-> msgs]
    ELSE LET r == CheckWithMap(v.items[id + 1], map)
             m2 == msgs \o Prefixed("in [" \o ToString(id) \o "]: ", r.msgs)
         IN  IF ~r.ret THEN [ret |-> FALSE, msgs |-> m2]
             ELSE ArrayOfLoop(map, v, id + 1, m2)

RECURSIVE RecordOfLoop(_, _, _, _)
RECURSIVE TupleOfLoop(_, _, _, _)
RECURSIVE UnionLoop(_, _, _, _)
RECURSIVE JoinComma(_, _)
RECURSIVE TemplateOf(_)
RECURSIVE JoinItems(_, _)

\* strs.join(", ") from the i-th string on
JoinComma(strs, i) ==
    IF i > Len(strs) THEN ""
    ELSE strs[i] \o (IF i < Len(strs) THEN ", " ELSE "") \o JoinComma(strs, i + 1)

\* Array.prototype.toString: the items from the i-th on joined by ",", null
\* and undefined as the empty string
JoinItems(items, i) ==
    IF i > Len(items) THEN ""
    ELSE (IF items[i].k \in {"undefined", "null"} THEN "" ELSE TemplateOf(items[i]))
         \o (IF i < Len(items) THEN "," ELSE "") \o JoinItems(items, i + 1)

\* `${v}`: String(v) of plain data
TemplateOf(v) ==
    CASE v.k = "undefined" -> "undefined"
      [] v.k = "null" -> "null"
      [] v.k = "string" -> v.s
      [] v.k = "number" -> ToString(v.n)
      [] v.k = "boolean" -> IF v.b THEN "true" ELSE "false"
      [] v.k = "array" -> JoinItems(v.items, 1)
      [] OTHER -> "[object Object]"

\* for (const [key, item] of Object.entries(v)) of isRecordOf, from the n-th
\* entry on
RecordOfLoop(map, entries, n, msgs) ==
    IF n > Len(entries) THEN [ret |-> TRUE, msgs |-> msgs]
    ELSE Bind(CheckWithMap(entries[n].val, map), LAMBDA r :
         Bind(msgs \o Prefixed("in " \o entries[n].key \o ": ", r.msgs), LAMBDA m2 :
             IF ~r.ret THEN [ret |-> FALSE, msgs |-> m2]
             ELSE RecordOfLoop(map, entries, n + 1, m2)))

\* for (const [id, guard] of guards.entries()) of isTuple, from index id on
TupleOfLoop(guards, v, id, msgs) ==
    IF id >= Len(guards) THEN [ret |-> TRUE, msgs |-> msgs]
    ELSE Bind(CheckWithMap(v.items[id + 1], guards[id + 1]), LAMBDA r :
         Bind(msgs \o Prefixed("in [" \o ToString(id) \o "]: ", r.msgs), LAMBDA m2 :
             IF ~r.ret THEN [ret |-> FALSE, msgs |-> m2]
             ELSE TupleOfLoop(guards, v, id + 1, m2)))

\* for (const guard of guards) of isUnion, from the n-th guard on; errors is
\* what the guards tried so far reported
UnionLoop(guards, v, n, errors) ==
    IF n > Len(guards)
    THEN [ret |-> FALSE,
          msgs |-> <<"Should be one of variants: " \o JoinComma(errors, 1)>>]
    ELSE Bind(CheckWithMap(v, guards[n]), LAMBDA r :
             IF r.ret THEN [ret |-> TRUE, msgs |-> <<>>]
             ELSE UnionLoop(guards, v, n + 1, errors \o r.msgs))

\* the custom guards and the conditions of the examples, by name: what they
\* return on v and what they report
CustomFn(name, v) ==
    CASE name = "nonEmpty" ->
            IF IsArray(v) /\ Len(v.items) = 0
            THEN [ret |-> FALSE, msgs |-> <<"Messages should not be empty">>]
            ELSE [ret |-> TRUE, msgs |-> <<>>]
      [] name = "notX" -> [ret |-> v # Str("x"), msgs |-> <<>>]
      [] name = "isX" -> [ret |-> v = Str("x"), msgs |-> <<>>]

\* a wrapper without the called flag: every report gets through
EveryReport(r, fallback) ==
    [ret |-> r.ret, msgs |-> r.msgs \o (IF ~r.ret THEN <<fallback>> ELSE <<>>)]

\* let called = false; const err = ...: only the first report gets through
FirstReport(r, fallback) ==
    Bind(r.msgs \o (IF ~r.ret THEN <<fallback>> ELSE <<>>), LAMBDA all :
        [ret |-> r.ret, msgs |-> IF all = <<>> THEN <<>> ELSE <<all[1]>>])

\* the guards the guard constructors return; map is what the constructor was
\* given (a guard map, the list of guard maps, the literals, or the guard map
\* and the condition)
GuardFn(g, map, v) ==
    CASE g = "isOptional" ->
            IF v = Undef THEN [ret |-> TRUE, msgs |-> <<>>] ELSE CheckWithMap(v, map)
      [] g = "isArrayOf" ->
            IF ~IsArray(v)
            THEN [ret |-> FALSE, msgs |-> <<"Expected array, got non-array">>]
            ELSE ArrayOfLoop(map, v, 0, <<>>)
      [] g = "isRecordOf" ->
            IF ~IsPartialUnknown(v)
            THEN [ret |-> FALSE, msgs |-> <<"Expected object, got non-object">>]
            ELSE RecordOfLoop(map, ObjectEntries(v), 1, <<>>)
      [] g = "isLiteral" ->
            IF \E i \in DOMAIN map : map[i] = v THEN [ret |-> TRUE, msgs |-> <<>>]
            ELSE [ret |-> FALSE,
                  msgs |-> <<"Expected one of "
                             \o JoinComma([i \in DOMAIN map |-> TemplateOf(map[i])], 1)
                             \o ", got " \o TemplateOf(v)>>]
      [] g = "isTuple" ->
            IF ~IsArray(v)
            THEN [ret |-> FALSE, msgs |-> <<"Expected array, got non-array">>]
            ELSE IF Len(v.items) < Len(map)
            THEN [ret |-> FALSE, msgs |-> <<"Too few items in tuple">>]
            ELSE TupleOfLoop(map, v, 0, <<>>)
      [] g = "isUnion" -> UnionLoop(map, v, 1, <<>>)
      [] g = "withCondition" ->
            Bind(CheckWithMap(v, map.map), LAMBDA r :
                IF ~r.ret THEN r
                ELSE Bind(FirstReport(CustomFn(map.condition, v), "Condition failed"),
                          LAMBDA c : [ret |-> c.ret, msgs |-> r.msgs \o c.msgs]))
      [] g = "custom" -> CustomFn(map, v)

\* for (const key in guardMap), from the n-th key on
MapLoop(entries, v, n, msgs) ==
    IF n > Len(entries) THEN [ret |-> TRUE, msgs |-> msgs]
    ELSE LET key == entries[n].key
             r == CheckWithMap(Get(v, key), entries[n].val)
             m2 == msgs \o Prefixed("in " \o key \o ": ", r.msgs)
         IN  IF ~r.ret THEN [ret |-> FALSE, msgs |-> m2]
             ELSE MapLoop(entries, v, n + 1, m2)

\* a map loop that first asks for the key to be present (key in v)
CheckWithMapClosedKeys(v, guardMap) ==
    IF guardMap.t = "map" /\ IsPartialUnknown(v)
       /\ Len(ObjectEntries(v)) > Len(guardMap.decl)
    THEN [ret |-> FALSE, msgs |-> <<"Unexpected key">>]
    ELSE CASE guardMap.t = "name" ->
                 IF CheckAtomicType(v, guardMap.name) THEN [ret |-> TRUE, msgs |-> <<>>]
                 ELSE [ret |-> FALSE,
                       msgs |-> <<"Expected " \o guardMap.name \o ", got " \o TypeOf(v)>>]
           [] guardMap.t = "fn" -> GuardFn(guardMap.g, guardMap.map, v)
           [] guardMap.t = "map" ->
                 IF ~IsPartialUnknown(v)
                 THEN [ret |-> FALSE, msgs |-> <<"Expected object, got non-object">>]
                 ELSE MapLoop(ObjectEntries(guardMap.fields), v, 1, <<>>)

\* checkWithMap(v, guardMap, onError)
CheckWithMap(v, guardMap) ==
    CASE guardMap.t = "name" ->
            LET result == CheckAtomicType(v, guardMap.name)
            IN  IF ~result
                THEN [ret |-> FALSE,
                      msgs |-> <<"Expected " \o guardMap.name \o ", got " \o TypeOf(v)>>]
                ELSE [ret |-> TRUE, msgs |-> <<>>]
      [] guardMap.t = "fn" ->
            LET r == GuardFn(guardMap.g, guardMap.map, v)
                all == r.msgs \o (IF ~r.ret THEN <<"Custom guard failed">> ELSE <<>>)
            IN  [ret |-> r.ret, msgs |-> IF all = <<>> THEN <<>> ELSE <<all[1]>>]
      [] guardMap.t = "map" ->
            IF ~IsPartialUnknown(v)
            THEN [ret |-> FALSE, msgs |-> <<"Expected object, got non-object">>]
            ELSE MapLoop(ObjectEntries(guardMap.fields), v, 1, <<>>)

\* asTypeGuard(guardMap)(v, onError)
AsTypeGuard(guardMap, v) == CheckWithMap(v, guardMap)

(***************************************************************************)
(* The input universes.                                                    *)
(***************************************************************************)
SeqsUpTo(S, n) == UNION {[1..m -> S] : m \in 0..n}

\* sequences of [key, val] with pairwise distinct keys
DeclsUpTo(K, V, n) ==
    {d \in SeqsUpTo([key : K, val : V], n) :
        \A i, j \in 1..Len(d) : i # j => d[i].key # d[j].key}

Prims == {Undef, Null, Str("x"), Num(1), Bool(TRUE)}
Elems == {Undef, Str("x"), Num(1)}
InputKeys == {"a", "b", "0"}

FlatArrays == {Arr(s) : s \in SeqsUpTo(Elems, MaxLen)}
FlatObjects == {ObjectLiteral(d) : d \in DeclsUpTo(InputKeys, Elems, MaxKeys)}

\* containers one level deeper
Inner == {Str("x"), Arr(<<Str("x")>>), Arr(<<Str("x"), Num(1)>>),
          ObjectLiteral(<<[key |-> "a", val |-> Num(1)]>>)}
NestedArrays == {Arr(s) : s \in SeqsUpTo(Inner, MaxKeys)}
NestedObjects == {ObjectLiteral(d) : d \in DeclsUpTo({"a", "0"}, Inner, 1)}

\* inputs on which the refinements of the tests and examples fail
RefineInputs ==
    {Num(-1), Arr(<<Num(-1)>>),
     ObjectLiteral(<<[key |-> "a", val |-> Num(-1)]>>),
     ObjectLiteral(<<[key |-> "a", val |-> Arr(<<>>)]>>)}

\* inputs three containers deep, after the messages of the chat-req example
DeepInputs ==
    {ObjectLiteral(<<[key |-> "a", val |->
         Arr(<<ObjectLiteral(<<[key |-> "b", val |-> Str("x")]>>),
               ObjectLiteral(<<[key |-> "b", val |-> Num(1)]>>)>>)]>>),
     ObjectLiteral(<<[key |-> "a", val |->
         Arr(<<ObjectLiteral(<<[key |-> "b", val |-> Str("x")]>>)>>)]>>),
     ObjectLiteral(<<[key |-> "a", val |-> Arr(<<Str("x"), Arr(<<Num(1), Str("x")>>)>>)]>>),
     Arr(<<Arr(<<Arr(<<Str("x"), Num(1)>>)>>)>>),
     Arr(<<ObjectLiteral(<<[key |-> "a", val |-> Arr(<<Str("x"), Num(1)>>)]>>)>>)}

\* strings that read like another kind's literal
LiteralInputs == {Str("null"), Str("1")}

Values ==
    Prims \cup FlatArrays \cup FlatObjects \cup NestedArrays \cup NestedObjects
    \cup RefineInputs \cup LiteralInputs \cup DeepInputs

FieldKeys == {"a", "b", "0", "1"}
FieldHelpers == {DString, OptH(DNumber)}
Structs == {StructH(d) : d \in DeclsUpTo(FieldKeys, FieldHelpers, MaxFields)}
Tuples == {TupleH(hs) : hs \in SeqsUpTo({DString, DNumber}, MaxTuple)}

DA == StructH(<<[key |-> "a", val |-> DNumber]>>)
OrOperands == {DString, DNumber, ArrH(DString), DA}
Unions == {OrH(A, B) : A, B \in OrOperands}
Containers ==
    {ArrH(DString), ArrH(DNumber), ArrH(ArrH(DString)), ArrH(DA),
     RecH(DString), RecH(DNumber), RecH(ArrH(DString)),
     ArrH(OrH(DString, DNumber)), RecH(OrH(DString, DNumber)),
     StructH(<<[key |-> "a", val |-> OrH(DString, DNumber)]>>),
     TupleH(<<OrH(DString, DNumber), ArrH(DString)>>),
     OrH(OrH(DString, DNumber), ArrH(DNumber))}

MapLeaves == {MapName("string"), MapFn("isOptional", MapName("number"))}
GuardMaps ==
    {MapObject(d) : d \in DeclsUpTo(InputKeys, MapLeaves, MaxFields)}
    \cup {MapObject(<<[key |-> "a", val |-> MapObject(<<[key |-> "a", val |-> MapName("number")]>>)]>>),
          MapObject(<<[key |-> "a", val |-> MapFn("isArrayOf", MapName("string"))]>>),
          MapFn("isArrayOf", MapName("string")),
          MapName("string")}

\* the texts given to parse: JSON texts of values, and two malformed texts
ParseValues ==
    {ObjectLiteral(<<[key |-> "a", val |-> Str("x")]>>),
     ObjectLiteral(<<[key |-> "a", val |-> Str("x")], [key |-> "b", val |-> Num(1)]>>),
     ObjectLiteral(<<[key |-> "a", val |-> Num(1)]>>),
     Arr(<<Num(1)>>), Arr(<<Str("x"), Num(1)>>), Str("x")}
ParseTexts == {JsonText(v) : v \in ParseValues} \cup {"{", ""}
ParseHelpers ==
    {StructH(<<[key |-> "a", val |-> DString], [key |-> "b", val |-> OptH(DNumber)]>>),
     ArrH(DNumber)}
IdentityHelpers ==
    ParseHelpers \cup {OptH(DA), OrH(ArrH(DNumber), DA), RecH(DString),
                       CondH(ArrH(DNumber), "nonEmpty"), TupleH(<<DNumber>>)}
\* the values given to clone: plain data, values that lose something on the
\* way through JSON, and values JSON.stringify has no text for
PlainInputs ==
    ParseValues
    \cup {ObjectLiteral(<<[key |-> "b", val |-> Num(1)], [key |-> "a", val |-> Str("x")]>>),
          ObjectLiteral(<<[key |-> "a", val |-> Str("x")], [key |-> "0", val |-> Null]>>),
          Arr(<<>>), Arr(<<Arr(<<Num(1)>>)>>), Num(1), Null}
LossyInputs ==
    {ObjectLiteral(<<[key |-> "a", val |-> Str("x")], [key |-> "b", val |-> Undef]>>),
     Arr(<<Undef>>), Arr(<<Num(1), Fn>>), DateOf("2024-01-01T00:00:00.000Z"),
     ObjectLiteral(<<[key |-> "a", val |-> DateOf("2024-01-01T00:00:00.000Z")]>>)}
NoTextInputs ==
    {Undef, Sym, Fn, BigInt(1), Cyclic, Arr(<<BigInt(1)>>),
     ObjectLiteral(<<[key |-> "a", val |-> Cyclic]>>)}
CloneInputs == PlainInputs \cup LossyInputs \cup NoTextInputs
\* what the texts of the lossy inputs decode to
CloneCopies ==
    {Arr(<<Null>>), Arr(<<Num(1), Null>>), Str("2024-01-01T00:00:00.000Z"),
     ObjectLiteral(<<[key |-> "a", val |-> Str("2024-01-01T00:00:00.000Z")]>>)}
CloneHelpers ==
    ParseHelpers
    \cup {DDate, DString, DNumber, OptH(DString), ArrH(OptH(DNumber)), RecH(DString),
          StructH(<<>>), OrH(DString, StructH(<<>>)), ArrH(ArrH(DNumber)),
          StructH(<<[key |-> "a", val |-> DDate]>>), OrNullH(DNumber),
          ArrH(OrNullH(DNumber))}
Defaults == {ObjectLiteral(<<[key |-> "a", val |-> Str("d")]>>), Arr(<<Num(0)>>)}

DB == StructH(<<[key |-> "b", val |-> DString]>>)
AndOperands == {DString, DNumber, DA, DB}
Intersections ==
    {AndH(A, B) : A, B \in AndOperands} \cup {MergeH(A, B) : A, B \in AndOperands}
    \cup {ArrH(AndH(DA, DB)), ArrH(MergeH(DA, DB)),
          StructH(<<[key |-> "a", val |-> AndH(DA, DB)]>>),
          StructH(<<[key |-> "a", val |-> MergeH(DA, DB)]>>)}

DPositiveNumber == CondH(DNumber, "positive")
DNonEmpty == CondH(ArrH(DString), "nonEmpty")
Conds ==
    {DPositiveNumber, DNonEmpty,
     StructH(<<[key |-> "a", val |-> DPositiveNumber]>>),
     StructH(<<[key |-> "a", val |-> DNonEmpty]>>),
     ArrH(DPositiveNumber),
     CondH(StructH(<<[key |-> "a", val |-> DNumber]>>), "fieldPositive")}

OptOperands == {DString, DNumber, DUndefined, DA, ArrH(DString)}
Optionals ==
    {OptH(H) : H \in OptOperands} \cup {OrNullH(H) : H \in OptOperands}
    \cup {OptH(OrNullH(DString)), OrNullH(OptH(DString)),
          ArrH(OptH(DString)), ArrH(OrNullH(DString))}

DRole == Literal(<<Str("x"), Str("null")>>)
DEnabled == Literal(<<Str("x"), Null>>)
Literals ==
    {DRole, DEnabled, Literal(<<Num(1), Bool(TRUE)>>), Literal(<<Str("1")>>),
     Literal(<<Str("x"), Undef>>), Literal(<<Undef, Num(1)>>), Literal(<<>>),
     StructH(<<[key |-> "a", val |-> DEnabled]>>)}

DMessage == StructH(<<[key |-> "b", val |-> DString]>>)
DChatRequest == StructH(<<[key |-> "a", val |-> ArrH(DMessage)]>>)
DeepHelpers ==
    {DChatRequest, ArrH(ArrH(ArrH(DString))),
     RecH(TupleH(<<DString, ArrH(DNumber)>>)),
     TupleH(<<RecH(ArrH(DString))>>),
     RecH(ArrH(DMessage))}

Atomics == {DString, DNumber, DBoolean, DUndefined}

Helpers ==
    Structs \cup Tuples \cup Unions \cup Containers \cup Intersections \cup Conds
    \cup Optionals \cup Atomics \cup Literals \cup DeepHelpers
GuardHelpers == Tuples \cup Unions \cup Containers \cup Atomics

\* values of every runtime kind, alone and inside containers, and validators
\* of every combinator to give them to
AnyValues ==
    {Undef, Null, Str("x"), Num(1), Bool(TRUE), BigInt(1), Sym, Fn, Cyclic,
     DateOf("2024-01-01T00:00:00.000Z"),
     Arr(<<>>), Arr(<<Str("x"), BigInt(1)>>), Arr(<<Sym>>), Arr(<<Str("x"), Num(1)>>),
     Arr(<<Cyclic>>),
     ObjectLiteral(<<[key |-> "a", val |-> BigInt(1)]>>),
     ObjectLiteral(<<[key |-> "a", val |-> Fn]>>),
     ObjectLiteral(<<[key |-> "a", val |-> Str("x")]>>),
     ObjectLiteral(<<[key |-> "a", val |-> Cyclic]>>)}
AnyHelpers ==
    Atomics
    \cup {DRole, Literal(<<Num(1), Null>>), DA, StructH(<<>>),
          StructH(<<[key |-> "a", val |-> DString]>>),
          StructH(<<[key |-> "self", val |-> DA]>>),
          TupleH(<<DString, DNumber>>), TupleH(<<>>),
          ArrH(DString), RecH(DString), RecH(RecH(DNumber)),
          OrH(DString, DNumber), OrH(DString, StructH(<<>>)), OrH(StructH(<<>>), DString),
          AndH(StructH(<<>>), DA), MergeH(DA, StructH(<<>>)),
          OptH(DString), OrNullH(DNumber), CondH(ArrH(DString), "nonEmpty")}

(***************************************************************************)
(* JSON.parse, parse and parseWithDefault.                                 *)
(***************************************************************************)
RECURSIVE IsJsonValue(_)
\* plain data: no undefined anywhere
IsJsonValue(v) ==
    CASE v.k \in {"undefined", "bigint", "symbol", "function", "date", "cyclic"} -> FALSE
      [] v.k = "array" -> \A i \in 1..Len(v.items) : IsJsonValue(v.items[i])
      [] v.k = "object" -> \A i \in 1..Len(v.entries) : IsJsonValue(v.entries[i].val)
      [] OTHER -> TRUE

\* the message of the SyntaxError JSON.parse throws
SyntaxErrorMessage(text) ==
    IF text = "{"
    THEN "Expected property name or '}' in JSON at position 1 (line 1 column 2)"
    ELSE IF text = "" THEN "Unexpected end of JSON input"
    ELSE IF text = "undefined" THEN "\"undefined\" is not valid JSON"
    ELSE "Unexpected token in JSON"

\* the values the texts of the model decode to
JsonValues == {v \in ParseValues \cup CloneInputs \cup CloneCopies : IsJsonValue(v)}

\* JSON.parse(text): the value whose JSON text it is, as a new object, or a
\* thrown SyntaxError
JSONparse(text) ==
    Bind({v \in JsonValues : JsonText(v) = text}, LAMBDA found :
        IF found # {}
        THEN [threw |-> FALSE, v |-> CHOOSE v \in found : TRUE, err |-> ""]
        ELSE [threw |-> TRUE, v |-> Undef, err |-> SyntaxErrorMessage(text)])

\* wrapFn(f)(x): what f throws becomes Err
WrapFn(outcome) ==
    [ok |-> ~outcome.threw, v |-> outcome.v, err |-> outcome.err, threw |-> FALSE,
     calls |-> <<>>]

\* result.andThen((v) => this.validate(v)) on an Ok result holding v
AndThenValidate(H, v) ==
    Bind(Validate(H, v), LAMBDA r :
        [ok |-> r.ok, v |-> r.v, err |-> r.err, threw |-> r.threw,
         calls |-> <<Call(Str("validate"), v, r.ok)>>])

\* a parse that hands back whatever the text decodes to
ParseNoValidate(H, text) == WrapFn(JSONparse(text))

\* H.parse(text): wrapFn(JSON.parse)(text).andThen((v) => this.validate(v))
Parse(H, text) ==
    Bind(WrapFn(JSONparse(text)), LAMBDA d :
        IF d.ok THEN AndThenValidate(H, d.v) ELSE d)

\* what a call hands back: an object it made, or the identity of one it was given
Fresh(v) == [fresh |-> TRUE, v |-> v, ref |-> 0, threw |-> FALSE]
Held(ref) == [fresh |-> FALSE, v |-> Undef, ref |-> ref, threw |-> FALSE]

\* result.unwrapOr(defaultValue)
UnwrapOr(result, defaultValue) ==
    IF result.ok THEN Fresh(result.v) ELSE defaultValue

\* a parseWithDefault that falls back only when the text is malformed
ParseWithDefaultDecodeOnly(H, text, defaultValue) ==
    LET d == WrapFn(JSONparse(text))
    IN  IF d.ok THEN Fresh(d.v) ELSE defaultValue

\* H.parseWithDefault(text, defaultValue)
ParseWithDefault(H, text, defaultValue) ==
    UnwrapOr(Parse(H, text), defaultValue)

\* execFn(() => JSON.parse(JSON.stringify(obj))): what either call throws
\* becomes Err; JSON.parse turns the undefined it is given into the text "undefined"
RoundTrip(obj) ==
    IF StringifyThrows(obj)
    THEN [ok |-> FALSE, v |-> Undef, err |-> TypeErrorMessage(obj), threw |-> FALSE,
          calls |-> <<>>]
    ELSE WrapFn(JSONparse(TemplateStr(JSONstringify(obj))))

\* a clone that makes the copy but runs the check on the object it was given
CloneChecksOriginal(H, ref, content) ==
    Bind(RoundTrip(content), LAMBDA d :
        IF ~d.ok
        THEN [ok |-> FALSE, val |-> Held(0), err |-> d.err, threw |-> d.threw,
              calls |-> <<>>]
        ELSE Bind(Validate(H, content), LAMBDA r :
                 [ok |-> r.ok, val |-> IF r.ok THEN Fresh(d.v) ELSE Held(0),
                  err |-> r.err, threw |-> r.threw,
                  calls |-> <<Call(Str("validate"), content, r.ok)>>]))

\* a clone that validates the object it was given and hands that object back
CloneNoCopy(H, ref, content) ==
    LET r == Validate(H, content)
    IN  [ok |-> r.ok, val |-> IF r.ok THEN Held(ref) ELSE Held(0), err |-> r.err,
         threw |-> r.threw, calls |-> <<Call(Str("validate"), content, r.ok)>>]

\* H.clone(obj) on an object the caller holds:
\* execFn(() => JSON.parse(JSON.stringify(obj))).andThen((v) => this.validate(v))
Clone(H, ref, content) ==
    Bind(RoundTrip(content), LAMBDA d :
        IF ~d.ok
        THEN [ok |-> FALSE, val |-> Held(0), err |-> d.err, threw |-> d.threw,
              calls |-> <<>>]
        ELSE Bind(AndThenValidate(H, d.v), LAMBDA r :
                 [ok |-> r.ok, val |-> IF r.ok THEN Fresh(r.v) ELSE Held(0),
                  err |-> r.err, threw |-> r.threw, calls |-> r.calls]))

\* a validate that hands back a copy of its input
ValidateObjectCopy(H, ref, content) ==
    LET r == Validate(H, content)
    IN  [ok |-> r.ok, val |-> IF r.ok THEN Fresh(content) ELSE Held(0), err |-> r.err]

\* H.validate(v) on an object the caller holds: validateBase maps the Ok
\* result to v itself (() => v as T)
ValidateObject(H, ref, content) ==
    Bind(Validate(H, content), LAMBDA r :
        [ok |-> r.ok, val |-> IF r.ok THEN Held(ref) ELSE Held(0), err |-> r.err])

\* obj[key] = val on an object, arr[0] = val on an array
SetProp(v, key, val) ==
    IF v.k = "array"
    THEN Arr(IF v.items = <<>> THEN <<val>> ELSE [v.items EXCEPT ![1] = val])
    ELSE IF \E i \in 1..Len(v.entries) : v.entries[i].key = key
         THEN Obj([i \in 1..Len(v.entries) |->
                    IF v.entries[i].key = key
                    THEN [key |-> key, val |-> val] ELSE v.entries[i]])
         ELSE ObjectLiteral(Append(v.entries, [key |-> key, val |-> val]))

(***************************************************************************)
(* The state machine of the validation calls.                              *)
(***************************************************************************)
NoCall ==
    [op |-> "none", h |-> DString, v |-> Undef, text |-> "", ok |-> TRUE,
     e |-> NoErr, message |-> "", calls |-> <<>>, out |-> Undef,
     onErr |-> <<>>, hasOnErr |-> FALSE, ref |-> 0, idx |-> 0, threw |-> FALSE]

Init ==
    /\ last = NoCall
    /\ heap = <<>>
    /\ defaultRef = 0
    /\ returned = <<>>
    /\ log = <<>>

\* a caller runs H.validate(v)
DoValidate ==
    /\ last.op = "none"
    /\ \E H \in Helpers, v \in Values :
        LET b == ValidateBase(H, v)
            r == Validate(H, v)
        IN  /\ last' = [NoCall EXCEPT !.op = "validate", !.h = H, !.v = v,
                            !.ok = r.ok, !.e = b.e, !.message = r.err,
                            !.calls = b.calls, !.out = r.v]
            /\ UNCHANGED <<heap, defaultRef, returned, log>>

\* a caller runs H.guard(v) or H.guard(v, onErr)
DoGuard ==
    /\ last.op = "none"
    /\ \E H \in GuardHelpers, v \in Values, hasOnErr \in BOOLEAN :
        LET b == ValidateBase(H, v)
            g == Guard(H, v, hasOnErr)
        IN  /\ last' = [NoCall EXCEPT !.op = "guard", !.h = H, !.v = v,
                            !.ok = g.ret, !.e = b.e, !.calls = b.calls,
                            !.onErr = g.onErr, !.hasOnErr = hasOnErr]
            /\ UNCHANGED <<heap, defaultRef, returned, log>>

\* the caller has looked at the outcome and is ready for its next call
Return ==
    /\ last.op # "none"
    /\ last' = NoCall
    /\ UNCHANGED <<heap, defaultRef, returned, log>>

\* a caller runs asTypeGuard(guardMap)(v, onError)
DoAsTypeGuard ==
    /\ last.op = "none"
    /\ \E guardMap \in GuardMaps, v \in Values :
        LET r == AsTypeGuard(guardMap, v)
        IN  /\ last' = [NoCall EXCEPT !.op = "asTypeGuard", !.h = guardMap, !.v = v,
                            !.ok = r.ret, !.onErr = r.msgs, !.hasOnErr = TRUE]
            /\ UNCHANGED <<heap, defaultRef, returned, log>>

Next == DoValidate \/ DoGuard \/ DoAsTypeGuard \/ Return

Spec == Init /\ [][Next]_vars

(***************************************************************************)
(* The state machine of a caller that parses texts with a default it owns  *)
(* and then writes to the values it got back.  heap holds the objects by   *)
(* identity, defaultRef is the identity of the caller's default and        *)
(* returned lists the identities parseWithDefault handed out.              *)
(***************************************************************************)
InitParse ==
    /\ last = NoCall
    /\ \E D \in Defaults : heap = <<D>>
    /\ defaultRef = 1
    /\ returned = <<>>
    /\ log = <<>>

\* a caller runs H.parse(text)
DoParse ==
    /\ last.op = "none"
    /\ \E H \in ParseHelpers, text \in ParseTexts :
        \E r \in {Parse(H, text)} :
            /\ last' = [NoCall EXCEPT !.op = "parse", !.h = H, !.text = text,
                            !.ok = r.ok, !.message = r.err, !.out = r.v,
                            !.calls = r.calls, !.threw = r.threw]
            /\ UNCHANGED <<heap, defaultRef, returned, log>>

\* a caller runs H.parseWithDefault(text, D) and keeps what it returns
DoParseWithDefault ==
    /\ last.op = "none"
    /\ Len(returned) < MaxCalls
    /\ \E H \in ParseHelpers, text \in ParseTexts :
        \E p \in {Parse(H, text)}, r \in {ParseWithDefault(H, text, Held(defaultRef))} :
            /\ heap' = IF r.fresh THEN Append(heap, r.v) ELSE heap
            /\ returned' = Append(returned, IF r.fresh THEN Len(heap) + 1 ELSE r.ref)
            /\ last' = [NoCall EXCEPT !.op = "parseWithDefault", !.h = H,
                            !.text = text, !.ok = p.ok, !.message = p.err,
                            !.out = IF r.fresh THEN r.v ELSE heap[r.ref],
                            !.ref = IF r.fresh THEN Len(heap) + 1 ELSE r.ref,
                            !.threw = r.threw]
            /\ UNCHANGED <<defaultRef, log>>

\* the caller writes to a value parseWithDefault returned: r.a = "changed"
\* on an object, r[0] = "changed" on an array
Mutate ==
    /\ last.op = "none"
    /\ \E i \in DOMAIN returned :
        LET ref == returned[i]
            w == SetProp(heap[ref], "a", Str("changed"))
        IN  /\ w # heap[ref]
            /\ heap' = [heap EXCEPT ![ref] = w]
            /\ last' = [NoCall EXCEPT !.op = "mutate", !.ref = ref, !.idx = i]
            /\ UNCHANGED <<defaultRef, returned, log>>

\* a caller runs H.validate(v) on an object it holds (its default or a value
\* parseWithDefault returned) and keeps the value of the result
DoValidateObject ==
    /\ last.op = "none"
    /\ \E H \in IdentityHelpers, ref \in DOMAIN heap :
        \E r \in {ValidateObject(H, ref, heap[ref])} :
            /\ heap' = IF r.ok /\ r.val.fresh THEN Append(heap, r.val.v) ELSE heap
            /\ last' = [NoCall EXCEPT !.op = "validateObject", !.h = H,
                            !.v = heap[ref], !.idx = ref, !.ok = r.ok,
                            !.message = r.err,
                            !.ref = IF ~r.ok THEN 0
                                    ELSE IF r.val.fresh THEN Len(heap) + 1
                                    ELSE r.val.ref,
                            !.out = IF ~r.ok THEN Undef
                                    ELSE IF r.val.fresh THEN r.val.v
                                    ELSE heap[r.val.ref]]
            /\ UNCHANGED <<defaultRef, returned, log>>

NextParse == DoParse \/ DoParseWithDefault \/ DoValidateObject \/ Mutate \/ Return

SpecParse == InitParse /\ [][NextParse]_vars

(***************************************************************************)
(* The state machine of a caller that passes values of every runtime kind  *)
(* to the three checking operations.  threw records that the call ended    *)
(* with an exception instead of a result.                                  *)
(***************************************************************************)
\* a caller runs H.validateBase(v)
DoValidateBaseAny ==
    /\ last.op = "none"
    /\ \E H \in AnyHelpers, v \in AnyValues :
        \E b \in {ValidateBase(H, v)} :
            /\ last' = [NoCall EXCEPT !.op = "validateBase", !.h = H, !.v = v,
                            !.ok = b.ok, !.e = b.e, !.calls = b.calls, !.out = b.v,
                            !.threw = b.threw]
            /\ UNCHANGED <<heap, defaultRef, returned, log>>

\* a caller runs H.validate(v)
DoValidateAny ==
    /\ last.op = "none"
    /\ \E H \in AnyHelpers, v \in AnyValues :
        \E r \in {Validate(H, v)} :
            /\ last' = [NoCall EXCEPT !.op = "validate", !.h = H, !.v = v,
                            !.ok = r.ok, !.message = r.err, !.out = r.v,
                            !.threw = r.threw]
            /\ UNCHANGED <<heap, defaultRef, returned, log>>

\* a caller runs H.guard(v, onErr)
DoGuardAny ==
    /\ last.op = "none"
    /\ \E H \in AnyHelpers, v \in AnyValues :
        \E g \in {Guard(H, v, TRUE)} :
            /\ last' = [NoCall EXCEPT !.op = "guard", !.h = H, !.v = v,
                            !.ok = g.ret, !.onErr = g.onErr, !.hasOnErr = TRUE,
                            !.threw = g.threw]
            /\ UNCHANGED <<heap, defaultRef, returned, log>>

NextAny == DoValidateBaseAny \/ DoValidateAny \/ DoGuardAny \/ Return

SpecAny == Init /\ [][NextAny]_vars

(***************************************************************************)
(* The state machine of a caller that builds validators from validators.   *)
(* Here heap holds the TypeHelperImpl objects by identity: heap[i] is the  *)
(* innerGuard closure of object i, written as the combinator that made it  *)
(* and the identities of the objects the closure captured.                 *)
(***************************************************************************)
\* the closure new TypeHelperImpl(guard) is given by each combinator
OrNode(a, b) == [t |-> "or", self |-> a, other |-> b]
AndNode(a, b) == [t |-> "and", self |-> a, other |-> b]
MergeNode(a, b) == [t |-> "merge", self |-> a, other |-> b]
OptNode(a) == [t |-> "opt", self |-> a]
OrNullNode(a) == [t |-> "orNull", self |-> a]
ArrNode(a) == [t |-> "arr", self |-> a]
RecNode(a) == [t |-> "rec", self |-> a]
CondNode(a, f) == [t |-> "cond", self |-> a, f |-> f]
StructNode(a) == [t |-> "struct", decl |-> <<[key |-> "a", val |-> a]>>]
TupleNode(a, b) == [t |-> "tuple", helpers |-> <<a, b>>]

\* the closures a caller builds next when it holds the objects 1..n: every
\* combinator once, called on the newest object, with the one before it as
\* the second operand
Nodes(n) ==
    {OptNode(n), OrNullNode(n), ArrNode(n), RecNode(n), CondNode(n, "notX"),
     StructNode(n), OrNode(n, n - 1), AndNode(n, n - 1), MergeNode(n, n - 1),
     TupleNode(n, n - 1)}

RECURSIVE Resolve(_, _)
\* the validator object i of the store, with the captured objects followed
Resolve(store, i) ==
    LET n == store[i]
    IN  CASE n.t \in {"or", "and", "merge"} ->
                [n EXCEPT !.self = Resolve(store, n.self),
                          !.other = Resolve(store, n.other)]
          [] n.t \in {"opt", "orNull", "arr", "rec", "cond"} ->
                [n EXCEPT !.self = Resolve(store, n.self)]
          [] n.t = "struct" ->
                StructH([j \in 1..Len(n.decl) |->
                            [key |-> n.decl[j].key, val |-> Resolve(store, n.decl[j].val)]])
          [] n.t = "tuple" ->
                TupleH([j \in 1..Len(n.helpers) |-> Resolve(store, n.helpers[j])])
          [] OTHER -> n

\* a combinator that installs the new closure in the object it was called on
\* and returns that object: the old closure moves to a new place
CreateHelperInPlace(store, node) ==
    IF node.t \in {"struct", "tuple"} THEN Append(store, node)
    ELSE Append([store EXCEPT ![node.self] = [node EXCEPT !.self = Len(store) + 1]],
                store[node.self])

\* createHelper(guard): a new TypeHelperImpl object holding the closure
CreateHelper(store, node) == Append(store, node)

\* the validators a caller starts from
BaseHelpers == {DString, DNumber}
\* the inputs the validators are compared on
ProbeValues ==
    {Undef, Null, Str("x"), Num(1), Arr(<<Str("x")>>), Arr(<<Num(1), Str("x")>>),
     ObjectLiteral(<<[key |-> "a", val |-> Str("x")]>>)}

InitCompose ==
    /\ last = NoCall
    /\ \E A, B \in BaseHelpers : A # B /\ heap = <<A, B>>
    /\ defaultRef = 0
    /\ returned = <<>>
    /\ log = <<>>

\* a caller builds a validator from validators it holds
DoCompose ==
    /\ last.op = "none"
    /\ Len(heap) < MaxHelpers
    /\ \E node \in Nodes(Len(heap)) :
        /\ heap' = CreateHelper(heap, node)
        /\ last' = [NoCall EXCEPT !.op = "compose", !.h = node, !.ref = Len(heap) + 1]
        /\ UNCHANGED <<defaultRef, returned, log>>

\* a caller runs validate on a validator it holds
DoValidateRef ==
    /\ last.op = "none"
    /\ \E ref \in DOMAIN heap, v \in ProbeValues :
        \E r \in {Validate(Resolve(heap, ref), v)} :
            /\ last' = [NoCall EXCEPT !.op = "validate", !.h = Resolve(heap, ref),
                            !.ref = ref, !.v = v, !.ok = r.ok, !.message = r.err,
                            !.out = r.v, !.threw = r.threw]
            /\ UNCHANGED <<heap, defaultRef, returned, log>>

NextCompose == DoCompose \/ DoValidateRef \/ Return

SpecCompose == InitCompose /\ [][NextCompose]_vars

(***************************************************************************)
(* The state machine of a caller that builds guards with the guard         *)
(* constructors, nested in each other, and calls them with an onError that *)
(* records what it is given: the guard itself, or asTypeGuard of the map.  *)
(***************************************************************************)
MapBase ==
    {MapName("string"), MapFn("isLiteral", <<Str("x"), Num(1)>>),
     MapFn("custom", "isX")}

\* one more level around the guard map m, one per constructor
Wrapped(m) ==
    {MapFn("isArrayOf", m), MapFn("isRecordOf", m), MapFn("isOptional", m),
     MapFn("isTuple", <<m, MapName("number")>>),
     MapFn("isUnion", <<MapName("number"), m>>),
     MapFn("withCondition", [map |-> m, condition |-> "nonEmpty"]),
     MapFn("withCondition", [map |-> m, condition |-> "notX"]),
     MapObject(<<[key |-> "a", val |-> m]>>)}

NestedMaps ==
    MapBase \cup UNION {Wrapped(m) : m \in MapBase}
    \cup UNION {Wrapped(w) : w \in UNION {Wrapped(m) : m \in MapBase}}

MapInputs ==
    {Undef, Str("x"), Str("y"), Num(1), Arr(<<>>), Arr(<<Str("x")>>),
     Arr(<<Str("x"), Num(1)>>), Arr(<<Str("x"), Str("y")>>),
     Arr(<<Arr(<<>>)>>), Arr(<<Arr(<<Str("x"), Num(0)>>), Num(1)>>),
     ObjectLiteral(<<[key |-> "a", val |-> Str("x")]>>),
     ObjectLiteral(<<[key |-> "a", val |-> Num(0)]>>),
     ObjectLiteral(<<[key |-> "a", val |-> Arr(<<Str("x"), Num(0)>>)]>>),
     ObjectLiteral(<<[key |-> "b", val |-> Str("x")], [key |-> "a", val |-> Str("y")]>>),
     ObjectLiteral(<<[key |-> "a", val |->
                        ObjectLiteral(<<[key |-> "a", val |-> Num(0)]>>)]>>),
     Arr(<<ObjectLiteral(<<[key |-> "a", val |-> Str("x")]>>),
           ObjectLiteral(<<[key |-> "a", val |-> Num(0)]>>)>>)}

\* the guard of a constructor called as it is, or asTypeGuard(map) called;
\* a custom guard is the caller's own function and is only called through
\* asTypeGuard
CallGuard(direct, map, v) ==
    IF direct /\ map.t = "fn" /\ map.g # "custom" THEN GuardFn(map.g, map.map, v)
    ELSE AsTypeGuard(map, v)

\* a caller runs guard(v, onError)
DoCallGuard ==
    /\ last.op = "none"
    /\ \E direct \in BOOLEAN, map \in NestedMaps, v \in MapInputs :
        \E r \in {CallGuard(direct, map, v)} :
            /\ last' = [NoCall EXCEPT !.op = "callGuard", !.h = map, !.v = v,
                            !.ok = r.ret, !.onErr = r.msgs, !.hasOnErr = TRUE,
                            !.idx = IF direct THEN 1 ELSE 0]
            /\ UNCHANGED <<heap, defaultRef, returned, log>>

NextMaps == DoCallGuard \/ Return

SpecMaps == Init /\ [][NextMaps]_vars

(***************************************************************************)
(* The state machine of a caller that builds parsers with asParser, with   *)
(* and without a default it owns, parses texts with them and writes to the *)
(* values it got back.  heap, defaultRef and returned are as in SpecParse. *)
(***************************************************************************)
RECURSIVE CloneDeep(_)
\* _.cloneDeep(v) on plain data: a new array or object with cloned members
CloneDeep(v) ==
    CASE v.k = "array" -> Arr([i \in 1..Len(v.items) |-> CloneDeep(v.items[i])])
      [] v.k = "object" ->
            Obj([i \in 1..Len(v.entries) |->
                   [key |-> v.entries[i].key, val |-> CloneDeep(v.entries[i].val)]])
      [] OTHER -> v

\* the try block of the parser: JSON.parse, then the guard; what is thrown.
\* The later generation passes the guard an onError that throws the message
\* it is given (passErr); the earlier one calls guard(obj)
TryParse(passErr, guardMap, json) ==
    Bind(JSONparse(json), LAMBDA d :
        IF d.threw THEN [threw |-> TRUE, v |-> Undef, err |-> d.err]
        ELSE Bind(AsTypeGuard(guardMap, d.v), LAMBDA g :
                 IF passErr /\ g.msgs # <<>>
                 THEN [threw |-> TRUE, v |-> Undef, err |-> g.msgs[1]]
                 ELSE IF ~g.ret
                 THEN [threw |-> TRUE, v |-> Undef, err |-> "Invalid JSON"]
                 ELSE [threw |-> FALSE, v |-> d.v, err |-> ""]))

\* a parser that hands out the default object itself
AsParserSharedDefault(passErr, guardMap, given, ref, content, json) ==
    Bind(TryParse(passErr, guardMap, json), LAMBDA t :
        IF ~t.threw THEN [val |-> Fresh(t.v), threw |-> FALSE, err |-> ""]
        ELSE IF given THEN [val |-> Held(ref), threw |-> FALSE, err |-> ""]
        ELSE [val |-> Held(0), threw |-> TRUE, err |-> t.err])

\* asParser(guardMap, defaultValue)(json); the default is the object ref with
\* the content it has now, or was not given
AsParser(passErr, guardMap, given, ref, content, json) ==
    Bind(TryParse(passErr, guardMap, json), LAMBDA t :
        IF ~t.threw THEN [val |-> Fresh(t.v), threw |-> FALSE, err |-> ""]
        ELSE IF given
        THEN [val |-> Fresh(CloneDeep(content)), threw |-> FALSE, err |-> ""]
        ELSE [val |-> Held(0), threw |-> TRUE, err |-> t.err])

ParserMaps ==
    {MapObject(<<[key |-> "a", val |-> MapName("string")],
                 [key |-> "b", val |-> MapFn("isOptional", MapName("number"))]>>),
     MapFn("isArrayOf", MapName("number"))}

\* a caller runs asParser(guardMap, D)(json) or asParser(guardMap)(json) and
\* keeps what it returns
DoAsParser ==
    /\ last.op = "none"
    /\ Len(returned) < MaxCalls
    /\ \E passErr \in BOOLEAN, guardMap \in ParserMaps, given \in BOOLEAN,
          json \in ParseTexts :
        \E r \in {AsParser(passErr, guardMap, given, defaultRef, heap[defaultRef], json)} :
            /\ heap' = IF r.val.fresh THEN Append(heap, r.val.v) ELSE heap
            /\ returned' = IF r.threw THEN returned
                           ELSE Append(returned,
                                       IF r.val.fresh THEN Len(heap) + 1 ELSE r.val.ref)
            /\ last' = [NoCall EXCEPT !.op = "asParser", !.h = guardMap,
                            !.text = json, !.hasOnErr = passErr,
                            !.idx = IF given THEN 1 ELSE 0,
                            !.threw = r.threw, !.message = r.err,
                            !.ok = ~TryParse(passErr, guardMap, json).threw,
                            !.out = IF r.threw THEN Undef
                                    ELSE IF r.val.fresh THEN r.val.v
                                    ELSE heap[r.val.ref],
                            !.ref = IF r.threw THEN 0
                                    ELSE IF r.val.fresh THEN Len(heap) + 1
                                    ELSE r.val.ref]
            /\ UNCHANGED <<defaultRef, log>>

NextAsParser == DoAsParser \/ Mutate \/ Return

SpecAsParser == InitParse /\ [][NextAsParser]_vars

(***************************************************************************)
(* The state machine of a caller that composes three validators with or    *)
(* or with and, grouped to the left or to the right, and validates a value *)
(* with the composition.                                                   *)
(***************************************************************************)
AssocOperands == {DString, DNumber, DInner, ArrH(DString)}
AssocValues ==
    {Undef, Str("x"), Num(1), Arr(<<Str("x"), Num(1)>>), Arr(<<Str("x")>>),
     ObjectLiteral(<<[key |-> "a", val |-> Num(1)]>>),
     ObjectLiteral(<<[key |-> "a", val |-> Str("x")]>>)}

\* A.or(B).or(C), A.or(B.or(C)), A.and(B).and(C), A.and(B.and(C))
OrLeft(A, B, C) == OrH(OrH(A, B), C)
OrRight(A, B, C) == OrH(A, OrH(B, C))
AndLeft(A, B, C) == AndH(AndH(A, B), C)
AndRight(A, B, C) == AndH(A, AndH(B, C))

Compositions(A, B, C) ==
    {OrLeft(A, B, C), OrRight(A, B, C), AndLeft(A, B, C), AndRight(A, B, C)}

\* the caller runs H.validate(v) on a composition H of three operands
DoValidateComposed ==
    /\ last.op = "none"
    /\ \E A \in AssocOperands, B \in AssocOperands, C \in AssocOperands,
          v \in AssocValues :
        \E H \in Compositions(A, B, C) :
        \E r \in {Validate(H, v)} :
            /\ last' = [NoCall EXCEPT !.op = "validate", !.h = H, !.v = v,
                            !.ok = r.ok, !.message = r.err, !.out = r.v]
            /\ UNCHANGED <<heap, defaultRef, returned, log>>

NextAssoc == DoValidateComposed \/ Return

SpecAssoc == Init /\ [][NextAssoc]_vars

(***************************************************************************)
(* The state machine of callers that share validators and call them one    *)
(* after the other and from inside each other.  Here heap holds the        *)
(* ErrBuilderImpl objects by identity, each with the call that made it     *)
(* (owner) and, for every stored segment, the call that pushed it (by);    *)
(* log lists the finished calls.  A store st is [heap, log, next] on its   *)
(* way through one call, next being the number of calls started so far; a  *)
(* result is [ok, ref, st], ref being the builder of an Err.  JavaScript   *)
(* runs a call to completion, so the only calls inside a call are the ones *)
(* a callback starts: a refinement, or onErr.                              *)
(***************************************************************************)
OkRes(st) == [ok |-> TRUE, ref |-> 0, st |-> st]

\* a leafErr that keeps one builder per message and hands it out again
LeafErrCached(st, message, cur) ==
    IF \E i \in DOMAIN st.heap : st.heap[i].message = message
    THEN [ok |-> FALSE, st |-> st,
          ref |-> CHOOSE i \in DOMAIN st.heap : st.heap[i].message = message]
    ELSE [ok |-> FALSE, ref |-> Len(st.heap) + 1,
          st |-> [st EXCEPT !.heap =
                     Append(@, [message |-> message, stackRev |-> <<>>, owner |-> cur])]]

\* leafErr(message) during call cur: err(new ErrBuilderImpl(message))
LeafErrIn(st, message, cur) ==
    [ok |-> FALSE, ref |-> Len(st.heap) + 1,
     st |-> [st EXCEPT !.heap =
                Append(@, [message |-> message, stackRev |-> <<>>, owner |-> cur])]]

\* e.errIn(seg) during call cur, on the builder ref
PushSeg(st, ref, seg, cur) ==
    [st EXCEPT !.heap[ref].stackRev = Append(@, [seg |-> seg, by |-> cur])]

\* the builder as ErrBuilderImpl holds it: the message and the bare segments
Bare(b) ==
    [message |-> b.message,
     stackRev |-> [i \in 1..Len(b.stackRev) |-> b.stackRev[i].seg]]

\* e.toError() on the builder ref: the message, and the store after the
\* in-place reverse of asFullMessage
Rendered(st, ref) ==
    [message |-> ToErrorMessage(Bare(st.heap[ref])),
     st |-> IF Len(st.heap[ref].stackRev) = 0 THEN st
            ELSE [st EXCEPT !.heap[ref].stackRev = Reverse(@)]]

\* the child validations of a struct, a tuple, an array or a record on v
Children(H, v) ==
    CASE H.t = "struct" ->
            LET es == ObjectEntries(H.fields)
            IN  [i \in 1..Len(es) |->
                    [seg |-> Str(es[i].key), h |-> es[i].val, v |-> Get(v, es[i].key)]]
      [] H.t = "tuple" ->
            [i \in 1..Len(H.helpers) |->
                [seg |-> Num(i - 1), h |-> H.helpers[i], v |-> v.items[i]]]
      [] H.t = "arr" ->
            [i \in 1..Len(v.items) |-> [seg |-> Num(i - 1), h |-> H.self, v |-> v.items[i]]]
      [] H.t = "rec" ->
            LET es == ObjectEntries(v)
            IN  [i \in 1..Len(es) |->
                    [seg |-> Str(es[i].key), h |-> H.self, v |-> es[i].val]]

\* a finished call, as the log keeps it
Finished(id, op, H, v, ok, message, inside) ==
    [id |-> id, op |-> op, h |-> H, v |-> v, ok |-> ok, message |-> message,
     inside |-> inside]

RECURSIVE Exec(_, _, _, _)
RECURSIVE ExecChildren(_, _, _, _)
RECURSIVE ValidateCall(_, _, _, _)

\* the loop of struct, tuple, arr and rec from the i-th child on: the first
\* failing child's builder gets the child's segment and is returned
ExecChildren(ch, i, st, cur) ==
    IF i > Len(ch) THEN OkRes(st)
    ELSE Bind(Exec(ch[i].h, ch[i].v, st, cur), LAMBDA r :
             IF ~r.ok THEN [r EXCEPT !.st = PushSeg(r.st, r.ref, ch[i].seg, cur)]
             ELSE ExecChildren(ch, i + 1, r.st, cur))

\* the refinement f on v during call cur; "nested" starts a call of its own
ExecRefine(f, v, st, cur) ==
    IF f = "nested"
    THEN Bind(ValidateCall(DInner, v, st, cur), LAMBDA n :
             IF n.ok THEN OkRes(n.st) ELSE LeafErrIn(n.st, "not an A", cur))
    ELSE Bind(Refine(f, v), LAMBDA q :
             IF q.ok THEN OkRes(st) ELSE LeafErrIn(st, q.e.message, cur))

\* H.validateBase(v) during call cur, with the builders it makes and writes to
Exec(H, v, st, cur) ==
    Bind(InnerGuard(H, v), LAMBDA p :
        IF p.calls = <<>>
        THEN \* a check that made no child validation: a leaf, or a container
             \* that stopped at its own test
             IF p.ok THEN OkRes(st) ELSE LeafErrIn(st, p.e.message, cur)
        ELSE CASE H.t \in {"struct", "tuple", "arr", "rec"} ->
                    ExecChildren(Children(H, v), 1, st, cur)
               [] H.t \in {"opt", "orNull"} -> Exec(H.self, v, st, cur)
               [] H.t \in {"and", "merge"} ->
                    Bind(Exec(H.self, v, st, cur), LAMBDA resT :
                        IF ~resT.ok THEN resT ELSE Exec(H.other, v, resT.st, cur))
               [] H.t = "cond" ->
                    Bind(Exec(H.self, v, st, cur), LAMBDA r :
                        IF ~r.ok THEN r ELSE ExecRefine(H.f, v, r.st, cur))
               [] H.t = "or" ->
                    Bind(Exec(H.self, v, st, cur), LAMBDA resT :
                        IF resT.ok THEN resT
                        ELSE Bind(Exec(H.other, v, resT.st, cur), LAMBDA resU :
                            IF resU.ok THEN resU
                            ELSE Bind(Rendered(resU.st, resT.ref), LAMBDA mT :
                                 Bind(Rendered(mT.st, resU.ref), LAMBDA mU :
                                     LeafErrIn(mU.st,
                                         "(" \o mT.message \o ") and ("
                                             \o mU.message \o ")",
                                         cur))))))

\* the store when one more call starts; the call's id is its next
Started(st) == [st EXCEPT !.next = @ + 1]

\* H.validate(v), started from inside call `inside` (0: by the caller
\* itself): validateBase(v).mapErr((e) => e.toError())
ValidateCall(H, v, st, inside) ==
    Bind(Started(st).next, LAMBDA id :
    Bind(Exec(H, v, Started(st), id), LAMBDA r :
        IF r.ok
        THEN [ok |-> TRUE, message |-> "",
              st |-> [r.st EXCEPT !.log =
                         Append(@, Finished(id, "validate", H, v, TRUE, "", inside))]]
        ELSE Bind(Rendered(r.st, r.ref), LAMBDA m :
                 [ok |-> FALSE, message |-> m.message,
                  st |-> [m.st EXCEPT !.log =
                             Append(@, Finished(id, "validate", H, v, FALSE,
                                                m.message, inside))]])))

\* H.guard(v, onErr); an onErr that reenters runs H.validate(v) before guard
\* returns
GuardCallOf(H, v, st, reenter) ==
    Bind(Started(st).next, LAMBDA id :
    Bind(Exec(H, v, Started(st), id), LAMBDA r :
        IF r.ok
        THEN [ok |-> TRUE, message |-> "",
              st |-> [r.st EXCEPT !.log =
                         Append(@, Finished(id, "guard", H, v, TRUE, "", 0))]]
        ELSE Bind(Rendered(r.st, r.ref), LAMBDA m :
             Bind(IF reenter THEN ValidateCall(H, v, m.st, id).st
                  ELSE m.st, LAMBDA st2 :
                 [ok |-> FALSE, message |-> m.message,
                  st |-> [st2 EXCEPT !.log =
                             Append(@, Finished(id, "guard", H, v, FALSE,
                                                m.message, 0))]]))))

\* the validators the callers share and the values they pass
CallHelpers ==
    {StructH(<<[key |-> "a", val |-> DString]>>),
     ArrH(CondH(StructH(<<>>), "nested")),
     OrH(DInner, ArrH(DNumber)),
     RecH(AndH(OptH(DString), CondH(DString, "notX")))}
CallValues ==
    {Str("x"), Arr(<<Num(1), Str("x")>>),
     ObjectLiteral(<<[key |-> "a", val |-> Num(1)]>>),
     Arr(<<ObjectLiteral(<<[key |-> "a", val |-> Num(1)]>>),
           ObjectLiteral(<<[key |-> "a", val |-> Str("x")]>>)>>),
     ObjectLiteral(<<[key |-> "a", val |-> Str("x")]>>)}

\* the store between two calls: every call started has finished
Store == [heap |-> heap, log |-> log, next |-> Len(log)]

\* the calls the caller itself has made
TopLevel == SelectSeq(log, LAMBDA c : c.inside = 0)

\* a caller runs H.validate(v)
DoValidateCall ==
    /\ Len(TopLevel) < MaxCalls
    /\ \E H \in CallHelpers, v \in CallValues :
        \E r \in {ValidateCall(H, v, Store, 0)} :
            /\ heap' = r.st.heap
            /\ log' = r.st.log
            /\ last' = [NoCall EXCEPT !.op = "validate", !.h = H, !.v = v,
                            !.ok = r.ok, !.message = r.message, !.idx = Len(log) + 1]
            /\ UNCHANGED <<defaultRef, returned>>

\* a caller runs H.guard(v, onErr)
DoGuardCall ==
    /\ Len(TopLevel) < MaxCalls
    /\ \E H \in CallHelpers, v \in CallValues, reenter \in BOOLEAN :
        \E r \in {GuardCallOf(H, v, Store, reenter)} :
            /\ heap' = r.st.heap
            /\ log' = r.st.log
            /\ last' = [NoCall EXCEPT !.op = "guard", !.h = H, !.v = v,
                            !.ok = r.ok, !.hasOnErr = TRUE,
                            !.onErr = IF r.ok THEN <<>> ELSE <<r.message>>,
                            !.idx = Len(log) + 1]
            /\ UNCHANGED <<defaultRef, returned>>

NextCalls == DoValidateCall \/ DoGuardCall

SpecCalls == Init /\ [][NextCalls]_vars

(***************************************************************************)
(* The state machine of a caller that holds a value and clones it, and may *)
(* clone the clones: heap[1] is the caller's value, every successful clone *)
(* is a new object of the heap.                                            *)
(***************************************************************************)
InitClone ==
    /\ last = NoCall
    /\ \E v \in CloneInputs : heap = <<v>>
    /\ defaultRef = 0
    /\ returned = <<>>
    /\ log = <<>>

\* a caller runs H.clone(obj) on a value it holds and keeps the value of an Ok result
DoClone ==
    /\ last.op = "none"
    /\ Len(heap) <= MaxClones
    /\ \E H \in CloneHelpers, ref \in DOMAIN heap :
        \E r \in {Clone(H, ref, heap[ref])} :
            /\ heap' = IF r.ok /\ r.val.fresh THEN Append(heap, r.val.v) ELSE heap
            /\ last' = [NoCall EXCEPT !.op = "clone", !.h = H, !.v = heap[ref],
                            !.idx = ref, !.ok = r.ok, !.message = r.err,
                            !.threw = r.threw, !.calls = r.calls,
                            !.ref = IF ~r.ok THEN 0
                                    ELSE IF r.val.fresh THEN Len(heap) + 1
                                    ELSE r.val.ref,
                            !.out = IF ~r.ok THEN Undef
                                    ELSE IF r.val.fresh THEN r.val.v
                                    ELSE heap[r.val.ref]]
            /\ UNCHANGED <<defaultRef, returned, log>>

NextClone == DoClone \/ Return

SpecClone == InitClone /\ [][NextClone]_vars

(***************************************************************************)
(* The state machine of a caller that holds one ErrBuilder: it makes it    *)
(* with leafErr or leafExpect, appends segments with errIn and renders it  *)
(* with toError.  heap[1] is the builder object; log lists the calls made  *)
(* on it so far, each with its argument and, for toError, the message of   *)
(* the error it returned.                                                  *)
(***************************************************************************)
ErrMessages == {"something wrong", "m"}
Segments == {Str("a"), Str("b"), Num(0)}

LogEntry(op, arg, out) == [op |-> op, arg |-> arg, out |-> out]

\* how many calls of that operation the log holds
Count(op) == Cardinality({i \in DOMAIN log : log[i].op = op})

InitErr ==
    /\ last = NoCall
    /\ heap = <<>>
    /\ defaultRef = 0
    /\ returned = <<>>
    /\ log = <<>>

\* the caller runs leafErr(message) and keeps the builder
DoLeafErr ==
    /\ heap = <<>>
    /\ \E message \in ErrMessages :
        /\ heap' = <<LeafErr(message).e>>
        /\ log' = <<LogEntry("leafErr", Str(message), "")>>
        /\ last' = [NoCall EXCEPT !.op = "leafErr", !.ok = FALSE,
                        !.e = LeafErr(message).e]
    /\ UNCHANGED <<defaultRef, returned>>

\* the caller runs leafExpect(expectStr, v) and keeps the builder
DoLeafExpect ==
    /\ heap = <<>>
    /\ \E expectStr \in {"string"}, v \in {Num(1), Undef} :
        /\ heap' = <<LeafExpect(expectStr, v).e>>
        /\ log' = <<LogEntry("leafExpect", Str(LeafExpect(expectStr, v).e.message), "")>>
        /\ last' = [NoCall EXCEPT !.op = "leafExpect", !.ok = FALSE, !.v = v,
                        !.e = LeafExpect(expectStr, v).e]
    /\ UNCHANGED <<defaultRef, returned>>

\* the caller runs e.errIn(key)
DoErrIn ==
    /\ heap # <<>>
    /\ Count("errIn") < MaxSegs
    /\ \E key \in Segments :
        /\ heap' = <<ErrIn(heap[1], key)>>
        /\ log' = Append(log, LogEntry("errIn", key, ""))
        /\ last' = [NoCall EXCEPT !.op = "errIn", !.ok = FALSE,
                        !.e = ErrIn(heap[1], key)]
    /\ UNCHANGED <<defaultRef, returned>>

\* the caller runs e.toError() and reads the message
DoToError ==
    /\ heap # <<>>
    /\ Count("toError") < MaxRenders
    /\ heap' = <<AfterRender(heap[1])>>
    /\ log' = Append(log, LogEntry("toError", Undef, ToErrorMessage(heap[1])))
    /\ last' = [NoCall EXCEPT !.op = "toError", !.ok = FALSE,
                    !.e = AfterRender(heap[1]),
                    !.message = ToErrorMessage(heap[1])]
    /\ UNCHANGED <<defaultRef, returned>>

NextErr == DoLeafErr \/ DoLeafExpect \/ DoErrIn \/ DoToError

SpecErr == InitErr /\ [][NextErr]_vars

(***************************************************************************)
(* Vocabulary of the properties.                                           *)
(***************************************************************************)
\* the places of the child validations, in the order they were made
CallSegs(calls) == [i \in 1..Len(calls) |-> calls[i].seg]

\* the first position of 1..n at which Fails holds, 0 when there is none
FirstFail(n, Fails(_)) ==
    IF \E i \in 1..n : Fails(i)
    THEN CHOOSE i \in 1..n : Fails(i) /\ \A j \in 1..(i - 1) : ~Fails(j)
    ELSE 0

\* the number an array-index name stands for
IndexOfKey(key) == CHOOSE i \in 0..IndexKeyLimit : ToString(i) = key

\* the rearrangements of a sequence
Rearrangements(d) ==
    {[i \in 1..Len(d) |-> d[f[i]]] :
        f \in {g \in [1..Len(d) -> 1..Len(d)] :
                  \A i, j \in 1..Len(d) : i # j => g[i] # g[j]}}

PositionIn(d, key) == CHOOSE i \in 1..Len(d) : d[i].key = key

\* The order in which Object.entries lists a field map declared as decl:
\* array-index names first, by ascending number, then the other names as declared.
EnumerationOrder(decl) ==
    CHOOSE p \in Rearrangements(decl) :
        \A i, j \in 1..Len(p) : i < j =>
            \/ IsIndexKey(p[i].key) /\ ~IsIndexKey(p[j].key)
            \/ /\ IsIndexKey(p[i].key) /\ IsIndexKey(p[j].key)
               /\ IndexOfKey(p[i].key) < IndexOfKey(p[j].key)
            \/ /\ ~IsIndexKey(p[i].key) /\ ~IsIndexKey(p[j].key)
               /\ PositionIn(decl, p[i].key) < PositionIn(decl, p[j].key)

\* a struct validator that checks its fields in the order `order` and stops at
\* the first failing one, whose error it returns with the field name appended
ChecksFieldsInOrder(order) ==
    LET Child(i) == ValidateBase(order[i].val, Get(last.v, order[i].key))
        Fails(i) == ~Child(i).ok
        f == FirstFail(Len(order), Fails)
    IN  IF f = 0
        THEN /\ last.ok
             /\ CallSegs(last.calls) = [i \in 1..Len(order) |-> Str(order[i].key)]
        ELSE /\ ~last.ok
             /\ last.e = ErrIn(Child(f).e, Str(order[f].key))
             /\ last.message = AsFullMessage(last.e)
             /\ CallSegs(last.calls) = [i \in 1..f |-> Str(order[i].key)]

StructCall ==
    /\ last.op = "validate"
    /\ last.h.t = "struct"
    /\ IsPartialUnknown(last.v)

(***************************************************************************)
(* C3.  As claimed: struct(fields) validates the declared fields in        *)
(* declaration order whatever the field names are, returns the error of    *)
(* the first declared field that fails with that field's name appended,    *)
(* and validates no field declared after it.                               *)
(***************************************************************************)
C3_DeclarationOrder == StructCall => ChecksFieldsInOrder(last.h.decl)

(***************************************************************************)
(* C3, amended.  struct(fields) validates the fields in the order          *)
(* Object.entries lists them (array-index names first by ascending number, *)
(* then the other names in declaration order, which is the declaration     *)
(* order when no declared name is an array index), returns the error of    *)
(* the first field of that order that fails with that field's name         *)
(* appended as one path segment, and validates no later field.             *)
(***************************************************************************)
C3_EnumerationOrder ==
    StructCall =>
        /\ ChecksFieldsInOrder(EnumerationOrder(last.h.decl))
        /\ (\A i \in 1..Len(last.h.decl) : ~IsIndexKey(last.h.decl[i].key))
               => ChecksFieldsInOrder(last.h.decl)

\* both fields fail, "0" is declared second, and the error is the one of "0"
C3_Witness ==
    /\ StructCall
    /\ Len(last.h.decl) = 2
    /\ ~IsIndexKey(last.h.decl[1].key)
    /\ IsIndexKey(last.h.decl[2].key)
    /\ ~ValidateBase(last.h.decl[1].val, Get(last.v, last.h.decl[1].key)).ok
    /\ ~last.ok
    /\ last.e.stackRev = <<Str(last.h.decl[2].key)>>
    /\ Len(last.calls) = 1

(***************************************************************************)
(* C4.  struct(fields) accepts an input iff the input is a non-null        *)
(* object (a plain object or an array) and every declared field's          *)
(* validator accepts the value at input[k], undefined when the key is      *)
(* absent; so an opt() field accepts a missing key, and null or a          *)
(* primitive fails with "Expected struct, got <json>" and no path segment. *)
(***************************************************************************)
\* the input has an own property of that name
HasKey(v, key) ==
    IF v.k = "array"
    THEN key = "length" \/ \E i \in 0..(Len(v.items) - 1) : ToString(i) = key
    ELSE \E i \in 1..Len(v.entries) : v.entries[i].key = key

ValueAt(v, key) == IF HasKey(v, key) THEN Get(v, key) ELSE Undef

\* the text a primitive of the input universe is reported as
PrimText(v) ==
    CASE v = Undef -> "undefined"
      [] v = Null -> "null"
      [] v = Str("x") -> "\"x\""
      [] v = Str("null") -> "\"null\""
      [] v = Str("1") -> "\"1\""
      [] v = Num(1) -> "1"
      [] v = Num(-1) -> "-1"
      [] v = Bool(TRUE) -> "true"

C4_StructAccepts ==
    (last.op = "validate" /\ last.h.t = "struct") =>
        LET decl == last.h.decl
            isObject == last.v.k \in {"object", "array"}
        IN  /\ last.ok <=>
                 /\ isObject
                 /\ \A i \in 1..Len(decl) :
                        ValidateBase(decl[i].val, ValueAt(last.v, decl[i].key)).ok
            /\ (isObject /\ \A i \in 1..Len(decl) :
                                decl[i].val.t = "opt" /\ ~HasKey(last.v, decl[i].key))
                   => last.ok
            /\ ~isObject =>
                 /\ ~last.ok
                 /\ last.message = "Expected struct, got " \o PrimText(last.v)
                 /\ last.e.stackRev = <<>>
                 /\ last.calls = <<>>

\* an array passes a struct through its index, the opt() field's key is missing
C4_Witness ==
    /\ last.op = "validate"
    /\ last.h = StructH(<<[key |-> "0", val |-> DString],
                          [key |-> "a", val |-> OptH(DNumber)]>>)
    /\ last.v = Arr(<<Str("x")>>)
    /\ last.ok

(***************************************************************************)
(* C6.  tuple(h1..hn) requires exact length: an array input whose length   *)
(* differs from n, shorter or longer, fails with "tuple length <n>, got    *)
(* <length>", no path segment and no element validated; a non-array input  *)
(* fails before the length is looked at.                                   *)
(***************************************************************************)
TupleCall == last.op = "validate" /\ last.h.t = "tuple"

C6_TupleExactLength ==
    TupleCall =>
        /\ ~IsArray(last.v) =>
             /\ ~last.ok
             /\ last.message =
                    "Expected tuple, got " \o TemplateStr(JSONstringify(last.v))
             /\ last.e.stackRev = <<>>
             /\ last.calls = <<>>
        /\ (IsArray(last.v) /\ Len(last.v.items) # Len(last.h.helpers)) =>
             /\ ~last.ok
             /\ last.message = "tuple length " \o ToString(Len(last.h.helpers))
                                   \o ", got " \o ToString(Len(last.v.items))
             /\ last.e.stackRev = <<>>
             /\ last.calls = <<>>

\* one item too many
C6_Witness ==
    /\ TupleCall
    /\ last.h = TupleH(<<DString, DNumber>>)
    /\ last.v = Arr(<<Str("x"), Num(1), Str("x")>>)
    /\ last.message = "tuple length 2, got 3"

(***************************************************************************)
(* C7.  For an array of length exactly n, tuple(h1..hn) validates position *)
(* i with hi in ascending order; it succeeds iff every position passes and *)
(* otherwise returns the error of the lowest failing position with that    *)
(* index appended as one path segment, validating no later position.       *)
(***************************************************************************)
C7_TuplePositions ==
    (TupleCall /\ IsArray(last.v) /\ Len(last.v.items) = Len(last.h.helpers)) =>
        LET n == Len(last.h.helpers)
            Child(i) == ValidateBase(last.h.helpers[i], last.v.items[i])
            Fails(i) == ~Child(i).ok
            f == FirstFail(n, Fails)
        IN  IF f = 0
            THEN /\ last.ok
                 /\ CallSegs(last.calls) = [i \in 1..n |-> Num(i - 1)]
            ELSE /\ ~last.ok
                 /\ last.e.message = Child(f).e.message
                 /\ last.e.stackRev = Append(Child(f).e.stackRev, Num(f - 1))
                 /\ last.message = AsFullMessage(last.e)
                 /\ CallSegs(last.calls) = [i \in 1..f |-> Num(i - 1)]

\* both positions are wrong; position 0 is reported and position 1 not looked at
C7_Witness ==
    /\ TupleCall
    /\ last.h = TupleH(<<DString, DNumber>>)
    /\ last.v = Arr(<<Num(1), Str("x")>>)
    /\ last.message = "in 0: Expected string, got 1"
    /\ Len(last.calls) = 1

(***************************************************************************)
(* C8.  H.arr() succeeds iff the input is an array and every element       *)
(* passes H (the empty array passes); elements are checked in ascending    *)
(* index order and the scan stops at the first failing element, whose      *)
(* error is returned with its index appended as one path segment.          *)
(***************************************************************************)
ArrCall == last.op = "validate" /\ last.h.t = "arr"

C8_ArrScan ==
    ArrCall =>
        IF ~IsArray(last.v)
        THEN ~last.ok /\ last.calls = <<>> /\ last.e.stackRev = <<>>
        ELSE LET n == Len(last.v.items)
                 Child(i) == InnerGuard(last.h.self, last.v.items[i])
                 Fails(i) == ~Child(i).ok
                 f == FirstFail(n, Fails)
             IN  IF f = 0
                 THEN /\ last.ok
                      /\ CallSegs(last.calls) = [i \in 1..n |-> Num(i - 1)]
                 ELSE /\ ~last.ok
                      /\ last.e.message = Child(f).e.message
                      /\ last.e.stackRev = Append(Child(f).e.stackRev, Num(f - 1))
                      /\ last.message = AsFullMessage(last.e)
                      /\ CallSegs(last.calls) = [i \in 1..f |-> Num(i - 1)]

\* elements 1 and 2 are both wrong; element 1 is reported, element 2 not checked
C8_Witness ==
    /\ ArrCall
    /\ last.h = ArrH(DString)
    /\ last.v = Arr(<<Str("x"), Num(1), Undef>>)
    /\ last.message = "in 1: Expected string, got 1"
    /\ Len(last.calls) = 2

(***************************************************************************)
(* C9.  H.rec() succeeds iff the input is a non-null object and the value  *)
(* under every own enumerable key passes H (the empty object passes); keys *)
(* are visited in the input's enumeration order and the first failing      *)
(* key's error is returned with that key appended as one path segment.     *)
(***************************************************************************)
RecCall == last.op = "validate" /\ last.h.t = "rec"

\* the own enumerable keys of an input with their values, in enumeration order
OwnEntries(v) ==
    IF v.k = "array"
    THEN [i \in 1..Len(v.items) |-> [key |-> ToString(i - 1), val |-> v.items[i]]]
    ELSE EnumerationOrder(v.entries)

C9_RecScan ==
    RecCall =>
        IF last.v.k \notin {"object", "array"}
        THEN ~last.ok /\ last.calls = <<>> /\ last.e.stackRev = <<>>
        ELSE LET en == OwnEntries(last.v)
                 Child(i) == InnerGuard(last.h.self, en[i].val)
                 Fails(i) == ~Child(i).ok
                 f == FirstFail(Len(en), Fails)
             IN  IF f = 0
                 THEN /\ last.ok
                      /\ CallSegs(last.calls) = [i \in 1..Len(en) |-> Str(en[i].key)]
                 ELSE /\ ~last.ok
                      /\ last.e.message = Child(f).e.message
                      /\ last.e.stackRev = Append(Child(f).e.stackRev, Str(en[f].key))
                      /\ last.message = AsFullMessage(last.e)
                      /\ CallSegs(last.calls) = [i \in 1..f |-> Str(en[i].key)]

\* both values are wrong; the key enumerated first is reported
C9_Witness ==
    /\ RecCall
    /\ last.h = RecH(DString)
    /\ last.v = ObjectLiteral(<<[key |-> "b", val |-> Num(1)],
                                [key |-> "0", val |-> Num(1)]>>)
    /\ last.message = "in 0: Expected string, got 1"
    /\ Len(last.calls) = 1

(***************************************************************************)
(* C10.  A.or(B) accepts v iff A accepts v or B accepts v; A is tried      *)
(* first and B is not evaluated when A succeeds; when both fail the result *)
(* is a new error with the message "(<rendered error of A>) and (<rendered *)
(* error of B>)" and an empty path of its own, to which the enclosing      *)
(* combinators append their segments.                                      *)
(***************************************************************************)
\* the error A.or(B) builds for v when both fail
UnionError(H, v) ==
    ErrBuilderImpl("(" \o AsFullMessage(InnerGuard(H.self, v).e) \o ") and ("
                       \o AsFullMessage(InnerGuard(H.other, v).e) \o ")")

C10_Union ==
    /\ (last.op = "validate" /\ last.h.t = "or") =>
           LET a == InnerGuard(last.h.self, last.v)
               b == InnerGuard(last.h.other, last.v)
           IN  /\ last.ok <=> (a.ok \/ b.ok)
               /\ CallSegs(last.calls) =
                      IF a.ok THEN <<Str("self")>> ELSE <<Str("self"), Str("other")>>
               /\ ~last.ok =>
                      /\ last.e = UnionError(last.h, last.v)
                      /\ last.message = last.e.message
    /\ (/\ last.op = "validate"
        /\ last.h.t \in {"arr", "rec"}
        /\ last.h.self.t = "or"
        /\ last.calls # <<>>
        /\ ~last.ok) =>
           LET c == last.calls[Len(last.calls)]
           IN  /\ last.e = ErrIn(UnionError(last.h.self, c.v), c.seg)
               /\ last.message = "in " \o SegStr(c.seg) \o ": " \o last.e.message

\* the path of the first alternative stays inside its parentheses
C10_Witness ==
    /\ last.op = "validate"
    /\ last.h = OrH(ArrH(DString), DNumber)
    /\ last.v = Arr(<<Num(1)>>)
    /\ last.message = "(in 0: Expected string, got 1) and (Expected number, got [1])"
    /\ last.e.stackRev = <<>>

(***************************************************************************)
(* C1.  As claimed: parseWithDefault never hands out the caller's default  *)
(* object: when H.parse(text) fails the value returned is a different      *)
(* object from D, so a write to a returned value changes neither D nor the *)
(* values the other calls returned.                                        *)
(***************************************************************************)
C1_NeverHandsOutDefault ==
    [][/\ (last'.op = "parseWithDefault" /\ ~last'.ok) => last'.ref # defaultRef
       /\ last'.op = "mutate" =>
            /\ heap'[defaultRef] = heap[defaultRef]
            /\ \A j \in DOMAIN returned :
                 j # last'.idx => heap'[returned[j]] = heap[returned[j]]]_vars

(***************************************************************************)
(* C2.  H.parseWithDefault(text, D) returns the decoded and validated      *)
(* value when H.parse(text) is Ok, and a value deep-equal to D both when   *)
(* the text is malformed and when the decoded value fails H; it never      *)
(* raises and never returns the error.                                     *)
(***************************************************************************)
Decoded(text) == {v \in ParseValues : JsonText(v) = text}

C2_ParseWithDefault ==
    last.op = "parseWithDefault" =>
        /\ ~last.threw
        /\ last.ok = Parse(last.h, last.text).ok
        /\ last.ok <=> \E v \in Decoded(last.text) : Validate(last.h, v).ok
        /\ \A v \in Decoded(last.text) :
             IF Validate(last.h, v).ok
             THEN last.out = v
             ELSE last.out = heap[defaultRef]
        /\ Decoded(last.text) = {} => last.out = heap[defaultRef]
        /\ last.out.k \in {"object", "array"}

\* a text that decodes to a value H rejects was answered with the default
C2_Witness ==
    /\ last.op = "parseWithDefault"
    /\ Decoded(last.text) # {}
    /\ ~last.ok
    /\ last.out = heap[defaultRef]

(***************************************************************************)
(* C5.  Object validators are open: for struct(fields), and for a          *)
(* guard-map object given to asTypeGuard, two non-null object inputs that  *)
(* hold the same values under every declared key get the same result (same *)
(* outcome and same message), whatever other keys they carry; adding an    *)
(* undeclared key to an accepted input never makes it rejected.  Stated    *)
(* through the projection: every call's result is the result on the        *)
(* input's projection onto the declared keys, which two inputs that agree  *)
(* on the declared keys share.                                             *)
(***************************************************************************)
Declared(h) == {h.decl[i].key : i \in 1..Len(h.decl)}

\* the object that holds, under the declared keys and no other key, what v
\* holds under them: every input that agrees with v on the declared keys has
\* this same object as its projection
OnlyDeclared(h, v) ==
    ObjectLiteral([i \in 1..Len(h.decl) |->
                     [key |-> h.decl[i].key, val |-> Get(v, h.decl[i].key)]])

\* the inputs made from v by adding one key that is not declared
WithUndeclaredKey(h, v) ==
    {SetProp(v, key, x) : key \in {k \in InputKeys \cup {"extra"} :
                                     k \notin Declared(h) /\ ~HasKey(v, k)},
                          x \in Elems}

C5_OpenObjects ==
    /\ (last.op = "validate" /\ last.h.t = "struct" /\ IsPartialUnknown(last.v)) =>
         /\ LET r == Validate(last.h, OnlyDeclared(last.h, last.v))
            IN  r.ok = last.ok /\ r.err = last.message
         /\ (last.ok /\ last.v.k = "object") =>
              \A w \in WithUndeclaredKey(last.h, last.v) : Validate(last.h, w).ok
    /\ (last.op = "asTypeGuard" /\ last.h.t = "map" /\ IsPartialUnknown(last.v)) =>
         /\ AsTypeGuard(last.h, OnlyDeclared(last.h, last.v))
               = [ret |-> last.ok, msgs |-> last.onErr]
         /\ (last.ok /\ last.v.k = "object") =>
              \A w \in WithUndeclaredKey(last.h, last.v) : AsTypeGuard(last.h, w).ret

\* a guard-map object accepted an input that carries an undeclared key
C5_Witness ==
    /\ last.op = "asTypeGuard"
    /\ last.h.t = "map"
    /\ last.h.decl # <<>>
    /\ last.v.k = "object"
    /\ last.ok
    /\ \E i \in 1..Len(last.v.entries) : last.v.entries[i].key \notin Declared(last.h)

(***************************************************************************)
(* C11.  A.and(B) and A.merge(B) behave identically for every input: both  *)
(* check A first, return A's error unchanged without evaluating B when A   *)
(* fails, otherwise return B's error unchanged when B fails, and succeed   *)
(* only when both succeed; neither appends a path segment.                 *)
(***************************************************************************)
IntersectionCall == last.op = "validate" /\ last.h.t \in {"and", "merge"}

\* the same operands under the other of the two combinators
Twin(h) == IF h.t = "and" THEN MergeH(h.self, h.other) ELSE AndH(h.self, h.other)

C11_AndMerge ==
    /\ IntersectionCall =>
         LET a == ValidateBase(last.h.self, last.v)
             b == ValidateBase(last.h.other, last.v)
             twin == ValidateBase(Twin(last.h), last.v)
         IN  /\ last.ok <=> (a.ok /\ b.ok)
             /\ ~a.ok => /\ CallSegs(last.calls) = <<Str("self")>>
                         /\ last.e = a.e
                         /\ last.message = ToErrorMessage(a.e)
             /\ (a.ok /\ ~b.ok) =>
                         /\ CallSegs(last.calls) = <<Str("self"), Str("other")>>
                         /\ last.e = b.e
                         /\ last.message = ToErrorMessage(b.e)
             /\ last.ok => last.out = last.v
             /\ twin.ok = last.ok /\ twin.e = last.e /\ twin.calls = last.calls
    \* inside an array the only segment is the array's own
    /\ (last.op = "validate" /\ last.h.t = "arr" /\ last.h.self.t \in {"and", "merge"}
            /\ ~last.ok /\ IsArray(last.v)) =>
         /\ Len(last.e.stackRev) = 1 + Len(InnerGuard(last.h.self, Get(last.v, SegStr(last.e.stackRev[Len(last.e.stackRev)]))).e.stackRev)
         /\ Validate(ArrH(Twin(last.h.self)), last.v).err = last.message

\* both operands reject the input, with different messages
C11_Witness ==
    /\ IntersectionCall
    /\ last.h.t = "merge"
    /\ ~ValidateBase(last.h.self, last.v).ok
    /\ ~ValidateBase(last.h.other, last.v).ok
    /\ ValidateBase(last.h.self, last.v).e # ValidateBase(last.h.other, last.v).e
    /\ last.message = ToErrorMessage(ValidateBase(last.h.self, last.v).e)

(***************************************************************************)
(* C12.  H.cond(refine) runs refine only on values that H accepts: when H  *)
(* fails refine is not called and H's error is returned unchanged; when    *)
(* refine fails its error is returned with no path segment added by cond   *)
(* itself, so inside a struct field f the rendered message is              *)
(* "in f: <refine message>".                                               *)
(***************************************************************************)
CondCall == last.op = "validate" /\ last.h.t = "cond"

\* a struct whose field a is a cond, called on an object whose a passes the
\* cond's own validator and fails the refinement
CondFieldCall ==
    /\ last.op = "validate"
    /\ last.h.t = "struct"
    /\ Declared(last.h) = {"a"}
    /\ last.h.decl[1].val.t = "cond"
    /\ IsPartialUnknown(last.v)
    /\ ValidateBase(last.h.decl[1].val.self, Get(last.v, "a")).ok
    /\ ~Refine(last.h.decl[1].val.f, Get(last.v, "a")).ok

C12_Cond ==
    /\ CondCall =>
         LET a == ValidateBase(last.h.self, last.v)
         IN  /\ ~a.ok => /\ CallSegs(last.calls) = <<Str("self")>>
                         /\ ~last.ok
                         /\ last.e = a.e
                         /\ last.message = ToErrorMessage(a.e)
             /\ a.ok => /\ CallSegs(last.calls) = <<Str("self"), Str("refine")>>
                        /\ last.ok = Refine(last.h.f, last.v).ok
                        /\ ~last.ok =>
                             /\ last.e = Refine(last.h.f, last.v).e
                             /\ last.message = ToErrorMessage(Refine(last.h.f, last.v).e)
    /\ CondFieldCall =>
         /\ ~last.ok
         /\ last.message =
               "in a: " \o Refine(last.h.decl[1].val.f, Get(last.v, "a")).e.message

\* a refinement failed inside the field a of a struct
C12_Witness ==
    /\ CondFieldCall
    /\ last.message = "in a: Expected positive number"

(***************************************************************************)
(* C13.  H.opt() accepts exactly the values H accepts plus undefined, and  *)
(* H.orNull() exactly the values H accepts plus null; for every other      *)
(* input each returns H's own result unchanged (same message, no path      *)
(* segment added), and opt() does not accept null nor orNull() undefined   *)
(* unless H does.                                                          *)
(***************************************************************************)
OptCall == last.op = "validate" /\ last.h.t \in {"opt", "orNull"}

\* the one value the combinator lets through by itself
Marker(h) == IF h.t = "opt" THEN Undef ELSE Null

C13_OptOrNull ==
    /\ OptCall =>
         LET own == ValidateBase(last.h.self, last.v)
         IN  /\ last.ok <=> (last.v = Marker(last.h) \/ own.ok)
             /\ last.v # Marker(last.h) =>
                  /\ last.ok = own.ok
                  /\ last.e = own.e
                  /\ last.message = (IF own.ok THEN "" ELSE ToErrorMessage(own.e))
             /\ last.ok => last.out = last.v
    \* inside an array the element's error is that of H, one level down
    /\ (/\ last.op = "validate" /\ last.h.t = "arr"
        /\ last.h.self.t \in {"opt", "orNull"}
        /\ IsArray(last.v)
        /\ \A i \in 1..Len(last.v.items) : last.v.items[i] # Marker(last.h.self)) =>
             /\ last.ok = Validate(ArrH(last.h.self.self), last.v).ok
             /\ last.message = Validate(ArrH(last.h.self.self), last.v).err

\* opt() met null and answered with H's own error
C13_Witness ==
    /\ OptCall
    /\ last.h.t = "opt"
    /\ last.v = Null
    /\ ~last.ok
    /\ last.message = "Expected string, got null"

(***************************************************************************)
(* C14.  For every atomic validator K (string, number, boolean, undefined) *)
(* and every input v, K.guard(v) is true iff the runtime kind of v equals  *)
(* K's kind; the kinds are mutually exclusive, so at most one atomic       *)
(* validator accepts a given value, and null, arrays and objects are       *)
(* accepted by none.                                                       *)
(***************************************************************************)
AtomicCall == last.op = "guard" /\ last.h.t = "atomic"

\* the runtime kind of a value of the input universe
KindOf(v) ==
    CASE v = Undef -> "undefined"
      [] v = Null -> "object"
      [] \E s \in {"x", "null", "1"} : v = Str(s) -> "string"
      [] \E n \in -1..1 : v = Num(n) -> "number"
      [] \E b \in BOOLEAN : v = Bool(b) -> "boolean"
      [] OTHER -> "object"

LiteralCall == last.op = "validate" /\ last.h.t = "literal"

RECURSIVE CandidateList(_, _)
\* the candidates from position i on, each as its text, separated by ", "
CandidateList(args, i) ==
    IF i > Len(args) THEN ""
    ELSE (IF i > 1 THEN ", " ELSE "") \o PrimText(args[i])
         \o CandidateList(args, i + 1)

\* the text an input is reported as
GotText(v) == IF v.k \in {"array", "object"} THEN JsonText(v) ELSE PrimText(v)

LiteralAsClaimed ==
    /\ last.ok <=> \E i \in 1..Len(last.h.args) : last.v = last.h.args[i]
    /\ ~last.ok =>
         /\ last.message = "Expected one of " \o CandidateList(last.h.args, 1)
                               \o ", got " \o GotText(last.v)
         /\ last.e.stackRev = <<>>

C15_Literal == LiteralCall => LiteralAsClaimed

\* C15 for candidate lists without undefined: there the claim holds
C15_LiteralWithoutUndefined ==
    (LiteralCall /\ \A i \in 1..Len(last.h.args) : last.h.args[i] # Undef)
        => LiteralAsClaimed

(***************************************************************************)
(* C16.  As claimed: rendering an ErrBuilder created with message m after  *)
(* errIn(s1), ..., errIn(sk) in that order yields m alone when k = 0, and  *)
(* "in sk.(...).s1: m" otherwise: the segments joined by "." in the        *)
(* reverse of the order they were appended.                                *)
(***************************************************************************)
\* the segments appended by the calls before the i-th, in call order
AppendedBefore(i) ==
    LET made == SelectSeq(SubSeq(log, 1, i - 1), LAMBDA c : c.op = "errIn")
    IN  [j \in 1..Len(made) |-> made[j].arg]

RECURSIVE LastToFirst(_, _)
\* the segments from the j-th down to the first, joined by "."
LastToFirst(segs, j) ==
    IF j = 0 THEN ""
    ELSE (IF segs[j].k = "number" THEN ToString(segs[j].n) ELSE segs[j].s)
         \o (IF j > 1 THEN "." ELSE "") \o LastToFirst(segs, j - 1)

\* what the claim says a rendering made by the i-th call yields
ClaimedRendering(i) ==
    LET m == log[1].arg.s
        segs == AppendedBefore(i)
    IN  IF Len(segs) = 0 THEN m
        ELSE "in " \o LastToFirst(segs, Len(segs)) \o ": " \o m

C16_Rendering ==
    \A i \in DOMAIN log : log[i].op = "toError" => log[i].out = ClaimedRendering(i)

\* C16 for the first rendering of a builder: there the claim holds
C16_FirstRendering ==
    \A i \in DOMAIN log :
        (log[i].op = "toError" /\ \A j \in 1..(i - 1) : log[j].op # "toError")
            => log[i].out = ClaimedRendering(i)

(***************************************************************************)
(* C17.  For a validator tree of any nesting depth built from struct, arr, *)
(* rec and tuple, a failure at a leaf yields an error whose path has       *)
(* exactly one segment per enclosing structural level between the root and *)
(* the failing value (field name, record key or index), appended once each *)
(* from the innermost level outwards, so the rendered path lists the       *)
(* outermost container first, as in "in a.0.b: Expected string, got 1".    *)
(***************************************************************************)
RECURSIVE IsStructural(_)
\* a tree of struct, arr, rec and tuple over atomic leaves
IsStructural(H) ==
    CASE H.t = "atomic" -> TRUE
      [] H.t \in {"arr", "rec"} -> IsStructural(H.self)
      [] H.t = "struct" -> \A i \in 1..Len(H.decl) : IsStructural(H.decl[i].val)
      [] H.t = "tuple" -> \A i \in 1..Len(H.helpers) : IsStructural(H.helpers[i])
      [] OTHER -> FALSE

\* the text of a segment
SegText(seg) == IF seg.k = "number" THEN ToString(seg.n) ELSE seg.s

\* a segment names a place one level inside H: a declared field of a struct,
\* a position of a tuple, an index under arr, a key under rec
IsLevelOf(H, seg) ==
    CASE H.t = "struct" -> seg.k = "string" /\ seg.s \in Declared(H)
      [] H.t = "tuple" -> seg.k = "number" /\ seg.n \in 0..(Len(H.helpers) - 1)
      [] H.t = "arr" -> seg.k = "number"
      [] H.t = "rec" -> seg.k = "string"
      [] OTHER -> FALSE

\* the validator one level inside H at that place
LevelHelper(H, seg) ==
    CASE H.t = "struct" ->
            H.decl[CHOOSE i \in 1..Len(H.decl) : H.decl[i].key = seg.s].val
      [] H.t = "tuple" -> H.helpers[seg.n + 1]
      [] H.t \in {"arr", "rec"} -> H.self

RECURSIVE FailsAlong(_, _, _, _, _)
\* following the path (outermost segment first) from position i on, every
\* segment names one level of the validator; the validator reached at the
\* end rejects the value reached there, at its own location and with the
\* message msg
FailsAlong(H, v, path, i, msg) ==
    IF i > Len(path)
    THEN LET own == ValidateBase(H, v)
         IN  ~own.ok /\ own.e = ErrBuilderImpl(msg)
    ELSE /\ IsLevelOf(H, path[i])
         /\ IsPartialUnknown(v)
         /\ FailsAlong(LevelHelper(H, path[i]), Get(v, SegText(path[i])), path,
                       i + 1, msg)

RECURSIVE DotJoined(_, _)
\* the segments from position i on, joined by "."
DotJoined(path, i) ==
    IF i > Len(path) THEN ""
    ELSE SegText(path[i]) \o (IF i < Len(path) THEN "." ELSE "")
         \o DotJoined(path, i + 1)

StructuralFailure ==
    /\ last.op = "validate"
    /\ last.h.t \in {"struct", "arr", "rec", "tuple"}
    /\ IsStructural(last.h)
    /\ ~last.ok

C17_Paths ==
    StructuralFailure =>
        LET outermostFirst == Reverse(last.e.stackRev)
        IN  /\ FailsAlong(last.h, last.v, outermostFirst, 1, last.e.message)
            /\ last.message =
                 IF outermostFirst = <<>> THEN last.e.message
                 ELSE "in " \o DotJoined(outermostFirst, 1) \o ": " \o last.e.message

\* the failure of the chat-req example, three levels down
C17_Witness ==
    /\ StructuralFailure
    /\ last.h = DChatRequest
    /\ last.e.stackRev = <<Str("b"), Num(1), Str("a")>>
    /\ last.message = "in a.1.b: Expected string, got 1"

(***************************************************************************)
(* C18.  A successful validateBase/validate returns the input value        *)
(* itself, not a copy and not modified, and validation never writes to the *)
(* input; hence validating the result of a successful H.validate(v) with H *)
(* again succeeds and yields the same value.                               *)
(***************************************************************************)
ObjectCall == last.op = "validateObject"

C18_SameValue ==
    ObjectCall =>
        \* the input holds after the call what it held before
        /\ heap[last.idx] = last.v
        /\ last.ok =>
             \* the value of the result is the input object
             /\ last.ref = last.idx
             /\ last.out = last.v
             \* and H accepts it again, with itself as the value
             /\ ValidateObject(last.h, last.ref, heap[last.ref]).ok
             /\ ValidateObject(last.h, last.ref, heap[last.ref]).val = Held(last.ref)
             /\ Validate(last.h, last.out).v = last.out

\* a value that was written to after parseWithDefault returned it passes H
\* and comes back as the same object
C18_Witness ==
    /\ ObjectCall
    /\ last.ok
    /\ last.idx \in {returned[i] : i \in DOMAIN returned}
    /\ last.ref = last.idx
    /\ last.out.k = "object"

(***************************************************************************)
(* C19.  H.guard(v, onErr) returns true iff H.validateBase(v) is Ok; when  *)
(* it is Err and onErr is given, onErr is called exactly once, before      *)
(* guard returns false, with an error whose message equals that of         *)
(* H.validate(v); onErr is never called when guard returns true.           *)
(***************************************************************************)
GuardCall == last.op = "guard"

C19_Guard ==
    GuardCall =>
        /\ last.ok <=> ValidateBase(last.h, last.v).ok
        /\ (~last.ok /\ last.hasOnErr) =>
             /\ Len(last.onErr) = 1
             /\ last.onErr[1] = Validate(last.h, last.v).err
        /\ last.ok => last.onErr = <<>>
        /\ ~last.hasOnErr => last.onErr = <<>>

\* onErr received the message of a failure inside an array, path included
C19_Witness ==
    /\ GuardCall
    /\ ~last.ok
    /\ last.hasOnErr
    /\ last.h = ArrH(DString)
    /\ last.onErr = <<"in 1: Expected string, got 1">>

(***************************************************************************)
(* C20.  H.parse(text) first decodes the text: when decoding fails it      *)
(* returns Err with the decode error and H's check is never run; when      *)
(* decoding succeeds it returns exactly H.validate(decoded value); both    *)
(* kinds of failure arrive as Err and parse never throws.                  *)
(***************************************************************************)
ParseCall == last.op = "parse"

\* the message of the error the decoder raises on a malformed text
DecodeError(text) ==
    CASE text = "{" ->
            "Expected property name or '}' in JSON at position 1 (line 1 column 2)"
      [] text = "" -> "Unexpected end of JSON input"

C20_Parse ==
    ParseCall =>
        /\ ~last.threw
        /\ Decoded(last.text) = {} =>
             /\ ~last.ok
             /\ last.message = DecodeError(last.text)
             /\ last.calls = <<>>
        /\ \A v \in Decoded(last.text) :
             /\ last.ok = Validate(last.h, v).ok
             /\ last.message = Validate(last.h, v).err
             /\ last.out = Validate(last.h, v).v
             /\ last.calls = <<Call(Str("validate"), v, last.ok)>>

\* a text that decodes to a value H rejects: Err with the validation message
C20_Witness ==
    /\ ParseCall
    /\ Decoded(last.text) # {}
    /\ ~last.ok
    /\ last.message = "in a: Expected string, got 1"

(***************************************************************************)
(* C21.  Clone round trip: for every validator H and every value v that    *)
(* H accepts and that is plain data with a JSON text, H.clone(v) is Ok,    *)
(* its value is structurally equal to v, and it is a different object      *)
(* from v.                                                                 *)
(***************************************************************************)
CloneCall == last.op = "clone"

C21_CloneRoundTrip ==
    (CloneCall /\ IsJsonValue(last.v) /\ Validate(last.h, last.v).ok) =>
        /\ last.ok
        /\ last.out = last.v
        /\ last.ref # last.idx
        /\ heap[last.ref] = last.v
        /\ heap[last.idx] = last.v

\* an object whose properties were created in the order b, a comes back equal
C21_Witness ==
    /\ CloneCall
    /\ last.v = ObjectLiteral(<<[key |-> "a", val |-> Str("x")], [key |-> "0", val |-> Null]>>)
    /\ last.h = StructH(<<>>)
    /\ last.ok
    /\ last.ref = 2

(***************************************************************************)
(* C22.  As claimed: H.clone(v) is decided by revalidating the             *)
(* serialized-then-decoded copy, not v: it is Ok only if the copy passes   *)
(* H, and when the round trip changes the value's shape or the value       *)
(* cannot be serialized it returns Err (for a Date, with "Expected Date,   *)
(* got <json of the date>") instead of returning v or throwing.            *)
(***************************************************************************)
\* the values the JSON text of v decodes to (one, or none when v has no text)
CopiesOf(v) ==
    IF StringifyThrows(v) \/ NoJsonText(v) THEN {}
    ELSE {c \in JsonValues : JsonText(c) = JsonText(v)}

\* the round trip hands back something else than it was given
ChangesShape(v) == \A c \in CopiesOf(v) : c # v

DateMessage ==
    (CloneCall /\ last.h = DDate /\ last.v.k = "date") =>
        /\ ~last.ok
        /\ last.message = "Expected Date, got \"" \o last.v.iso \o "\""

C22_CloneDetectsChange ==
    CloneCall =>
        /\ ~last.threw
        /\ last.ok => Validate(last.h, last.out).ok
        /\ last.ok => last.ref # last.idx
        /\ ChangesShape(last.v) => ~last.ok
        /\ DateMessage

(***************************************************************************)
(* C22, amended.  H.clone(v) is Ok exactly when v can be serialized and    *)
(* the decoded copy passes H, and its value is then the copy; when v       *)
(* cannot be serialized it returns Err with the error of the round trip    *)
(* and H is not run; when the copy fails H it returns H's error about the  *)
(* copy (for a Date, "Expected Date, got <json of the date>"); it never    *)
(* returns v and never throws.  A change of shape that leaves the copy     *)
(* acceptable to H is not reported.                                        *)
(***************************************************************************)
C22_CloneRevalidates ==
    CloneCall =>
        /\ ~last.threw
        /\ last.ok => last.ref # last.idx
        /\ StringifyThrows(last.v) =>
             /\ ~last.ok
             /\ last.calls = <<>>
             /\ last.message = TypeErrorMessage(last.v)
        /\ NoJsonText(last.v) =>
             /\ ~last.ok
             /\ last.calls = <<>>
             /\ last.message = SyntaxErrorMessage("undefined")
        /\ ~(StringifyThrows(last.v) \/ NoJsonText(last.v)) => CopiesOf(last.v) # {}
        /\ \A c \in CopiesOf(last.v) :
             /\ last.ok = Validate(last.h, c).ok
             /\ last.message = Validate(last.h, c).err
             /\ last.ok => last.out = c
             /\ last.calls = <<Call(Str("validate"), c, last.ok)>>
        /\ DateMessage

\* the Date of the test: DDate accepts it, its copy is a string, clone is Err
C22_Witness ==
    /\ CloneCall
    /\ last.h = DDate
    /\ last.v = DateOf("2024-01-01T00:00:00.000Z")
    /\ ~last.ok
    /\ last.message = "Expected Date, got \"2024-01-01T00:00:00.000Z\""

(***************************************************************************)
(* C23.  As claimed: failures are returned, never thrown: for every        *)
(* validator built from the atomic, literal, struct, tuple and TypeHelper  *)
(* combinators and every input of any runtime kind (bigint, symbol,        *)
(* function and cyclic objects included), validateBase, validate and guard *)
(* return a result and raise no exception.                                 *)
(***************************************************************************)
CheckingCall == last.op \in {"validateBase", "validate", "guard"}

C23_NeverThrows == CheckingCall => ~last.threw

\* What does hold: a call throws only on an input that holds a bigint or a
\* cycle, and then only when a check fails on a value that holds one;
\* symbols, functions, dates and undefined are answered with a result.
C23_ThrowsOnlyOnBigIntOrCycle ==
    CheckingCall =>
        /\ last.threw => StringifyThrows(last.v)
        /\ last.threw => ~last.ok /\ last.onErr = <<>>
        /\ (last.v \in {Sym, Fn} /\ ~last.ok /\ last.op = "validate" /\ last.h = DString)
             => last.message = "Expected string, got undefined"

(***************************************************************************)
(* C24.  Composition does not change its operands: after building new      *)
(* validators from A and B with or, and, merge, opt, orNull, arr, rec,     *)
(* cond, struct or tuple, and after validation calls on the composites, A  *)
(* and B give for every input the same result they gave before; the check  *)
(* function of a validator is fixed at construction.                       *)
(***************************************************************************)
\* every validator alive before a step is alive after it, holds the same
\* closure and answers every input as before
C24_OperandsUnchanged ==
    [][\A before \in {heap}, after \in {heap'} :
          \A i \in DOMAIN before :
              /\ i \in DOMAIN after
              /\ after[i] = before[i]
              /\ \A v \in ProbeValues :
                    Validate(Resolve(after, i), v) = Validate(Resolve(before, i), v)]_vars

\* A.opt() and then the or of the two were built, and A still rejects undefined
C24_Witness ==
    /\ Len(heap) = 4
    /\ heap[2] = DString
    /\ heap[3] = OptNode(2)
    /\ heap[4] = OrNode(3, 2)
    /\ last.op = "validate"
    /\ last.ref = 2
    /\ last.v = Undef
    /\ ~last.ok
    /\ last.message = "Expected string, got undefined"

(***************************************************************************)
(* C25.  Validation calls are independent: in any sequence of validate and *)
(* guard calls on shared validators, calls started from inside a cond      *)
(* refinement or an onErr callback included, each call returns the outcome *)
(* and the rendered message it returns when it runs alone; every failing   *)
(* call creates its own ErrBuilder, and no ErrBuilder receives path        *)
(* segments from two different calls.                                      *)
(***************************************************************************)
\* the call a call belongs to: itself, or for a child validation the call
\* that was started by the caller or by a callback
C25_Independent ==
    /\ \A i \in DOMAIN log :
          /\ log[i].ok = Validate(log[i].h, log[i].v).ok
          /\ log[i].message = Validate(log[i].h, log[i].v).err
          /\ ~log[i].ok => \E b \in DOMAIN heap : heap[b].owner = log[i].id
          /\ \A j \in DOMAIN log : i # j => log[i].id # log[j].id
    /\ \A b \in DOMAIN heap :
          /\ \E i \in DOMAIN log : log[i].id = heap[b].owner
          /\ \A k \in DOMAIN heap[b].stackRev : heap[b].stackRev[k].by = heap[b].owner

\* the same failing call twice, the second from inside onErr of a third
C25_Witness ==
    /\ Len(log) = 3
    /\ log[1].h = StructH(<<[key |-> "a", val |-> DString]>>)
    /\ log[1].message = "in a: Expected string, got 1"
    /\ log[2].inside = log[3].id
    /\ log[2].message = "in a: Expected string, got 1"
    /\ log[3].op = "guard"
    /\ log[3].message = "in a: Expected string, got 1"

(***************************************************************************)
(* C26.  or and and compose associatively: A.or(B).or(C) and               *)
(* A.or(B.or(C)) return the same result for every v, and so do             *)
(* A.and(B).and(C) and A.and(B.and(C)); the same result is the same Ok/Err *)
(* outcome and, on Err, the same rendered message.                         *)
(***************************************************************************)
\* the claim as stated: the other grouping gives the outcome and the message
\* of the call
C26_Associative ==
    last.op = "validate" =>
        \A A \in AssocOperands, B \in AssocOperands, C \in AssocOperands :
            /\ last.h = OrLeft(A, B, C) =>
                  /\ Validate(OrRight(A, B, C), last.v).ok = last.ok
                  /\ Validate(OrRight(A, B, C), last.v).err = last.message
            /\ last.h = AndLeft(A, B, C) =>
                  /\ Validate(AndRight(A, B, C), last.v).ok = last.ok
                  /\ Validate(AndRight(A, B, C), last.v).err = last.message

\* the messages of the three operands on v, grouped to the left and to the
\* right
GroupedLeft(A, B, C, v) ==
    "((" \o Validate(A, v).err \o ") and (" \o Validate(B, v).err \o ")) and ("
         \o Validate(C, v).err \o ")"
GroupedRight(A, B, C, v) ==
    "(" \o Validate(A, v).err \o ") and ((" \o Validate(B, v).err \o ") and ("
        \o Validate(C, v).err \o "))"

\* what holds: and is associative, message included; or is associative in
\* its outcome and its value, and its message on Err holds the three
\* operands' messages in the same order, grouped as the composition is
C26_AssociativeOutcome ==
    last.op = "validate" =>
        \A A \in AssocOperands, B \in AssocOperands, C \in AssocOperands :
            /\ last.h = OrLeft(A, B, C) =>
                  /\ Validate(OrRight(A, B, C), last.v).ok = last.ok
                  /\ Validate(OrRight(A, B, C), last.v).v = last.out
                  /\ ~last.ok =>
                        /\ last.message = GroupedLeft(A, B, C, last.v)
                        /\ Validate(OrRight(A, B, C), last.v).err
                               = GroupedRight(A, B, C, last.v)
            /\ last.h = AndLeft(A, B, C) =>
                  /\ Validate(AndRight(A, B, C), last.v).ok = last.ok
                  /\ Validate(AndRight(A, B, C), last.v).v = last.out
                  /\ Validate(AndRight(A, B, C), last.v).err = last.message

C26_Witness ==
    /\ last.op = "validate"
    /\ last.h = OrLeft(DString, DInner, ArrH(DString))
    /\ last.v = ObjectLiteral(<<[key |-> "a", val |-> Str("x")]>>)
    /\ ~last.ok
    /\ last.message =
           "((Expected string, got {\"a\":\"x\"}) and (in a: Expected number, got \"x\")) and (Expected array)"

(***************************************************************************)
(* C27.  asParser(guardMap, defaultValue)(json) returns the decoded object *)
(* when json is well-formed and passes the guard; when decoding or the     *)
(* guard fails and a default was given it returns a deep clone of the      *)
(* default, never the default object itself, so writing to a returned      *)
(* value never changes the default later calls use; when no default was    *)
(* given the error is rethrown to the caller.                              *)
(***************************************************************************)
\* the error of the try block on a text: what JSON.parse throws, or what the
\* failed guard makes the parser throw
TryError(passErr, guardMap, text) ==
    IF Decoded(text) = {} THEN SyntaxErrorMessage(text)
    ELSE LET g == AsTypeGuard(guardMap, CHOOSE v \in Decoded(text) : TRUE)
         IN  IF passErr THEN g.msgs[1] ELSE "Invalid JSON"

C27_AsParser ==
    /\ heap[defaultRef] \in Defaults
    /\ \A i \in DOMAIN returned : returned[i] # defaultRef
    /\ last.op = "asParser" =>
          LET passes == \E v \in Decoded(last.text) : AsTypeGuard(last.h, v).ret
          IN  /\ passes =>
                    /\ ~last.threw
                    /\ last.out \in Decoded(last.text)
                    /\ last.ref = Len(heap) /\ last.ref # defaultRef
                    /\ heap[last.ref] = last.out
              /\ (~passes /\ last.idx = 1) =>
                    /\ ~last.threw
                    /\ last.out = heap[defaultRef]
                    /\ last.ref = Len(heap) /\ last.ref # defaultRef
                    /\ heap[last.ref] = last.out
              /\ (~passes /\ last.idx = 0) =>
                    /\ last.threw
                    /\ last.message = TryError(last.hasOnErr, last.h, last.text)

\* a second fallback after the caller wrote to the first one it got
C27_Witness ==
    /\ last.op = "asParser" /\ last.idx = 1 /\ ~last.ok
    /\ Len(returned) = 2
    /\ heap[returned[1]] = ObjectLiteral(<<[key |-> "a", val |-> Str("changed")]>>)
    /\ last.out = ObjectLiteral(<<[key |-> "a", val |-> Str("d")]>>)

(***************************************************************************)
(* C28.  Every validation call terminates: for every finite composition of *)
(* the combinators and every finite input value, validate / guard / parse  *)
(* return Ok or Err, and each combinator node checks each child value at   *)
(* most once per call.                                                     *)
(***************************************************************************)
RECURSIVE HasCycle(_)
\* the value holds a reference to itself somewhere: it is not a finite value
HasCycle(v) ==
    CASE v.k = "cyclic" -> TRUE
      [] v.k = "array" -> \E i \in 1..Len(v.items) : HasCycle(v.items[i])
      [] v.k = "object" -> \E i \in 1..Len(v.entries) : HasCycle(v.entries[i].val)
      [] OTHER -> FALSE

\* the child checks the top node of H made on v: no child appears twice
ChecksOnce(H, v) ==
    LET calls == ValidateBase(H, v).calls
    IN  \A i \in DOMAIN calls, j \in DOMAIN calls : i # j => calls[i].seg # calls[j].seg

\* the claim: a call on a finite input came back with a result, and its node
\* checked no child twice
C28_Terminates ==
    (CheckingCall /\ ~HasCycle(last.v)) =>
        /\ ~last.threw
        /\ ChecksOnce(last.h, last.v)

\* what holds: the same for the inputs that hold no BigInt either
C28_TerminatesWithoutBigInt ==
    (CheckingCall /\ ~StringifyThrows(last.v)) =>
        /\ ~last.threw
        /\ ChecksOnce(last.h, last.v)

(***************************************************************************)
(* C29.  Rendering an ErrBuilder does not change it: after any sequence of *)
(* errIn calls, two or more toError calls return the same message, the     *)
(* stored segment sequence is the same after a rendering as before it, and *)
(* an errIn made after a rendering still ends up as the outermost, first   *)
(* rendered, segment.                                                      *)
(***************************************************************************)
C29_RenderingKeepsBuilder ==
    /\ \* the builder holds the segments in the order they were appended
       heap # <<>> => heap[1].stackRev = AppendedBefore(Len(log) + 1)
    /\ \* a rendering repeats the one made just before it
       \A i \in DOMAIN log :
          (i > 1 /\ log[i].op = "toError" /\ log[i - 1].op = "toError")
              => log[i].out = log[i - 1].out
    /\ \* a segment appended after a rendering is rendered first
       \A i \in DOMAIN log :
          (i > 2 /\ log[i].op = "toError" /\ log[i - 1].op = "errIn"
             /\ \E j \in 1..(i - 2) : log[j].op = "toError")
              => log[i].out = ClaimedRendering(i)

(***************************************************************************)
(* C30.  In the guard-map generation, for every guard built from           *)
(* checkWithMap, asTypeGuard, isArrayOf, isRecordOf, isOptional,           *)
(* isLiteral, isTuple, isUnion and withCondition, at any nesting depth: a  *)
(* call that returns false invokes onError exactly once, with each         *)
(* enclosing level's "in <key>: " or "in [<index>]: " prefix added         *)
(* outermost first, and a call that returns true never invokes it          *)
(* (custom guards and conditions report only when they return false).      *)
(***************************************************************************)
\* the first of the children 1..n that the guard map rejects; child(i) is
\* [map, v, prefix]
FirstRejected(children) ==
    CHOOSE n \in DOMAIN children :
        /\ ~CheckWithMap(children[n].v, children[n].map).ret
        /\ \A m \in 1..(n - 1) : CheckWithMap(children[m].v, children[m].map).ret

\* the children a level checks on v with their prefixes, <<>> when the level
\* fails by itself
MapChildren(map, v) ==
    CASE map.t = "map" /\ IsPartialUnknown(v) ->
            LET es == ObjectEntries(map.fields)
            IN  [i \in 1..Len(es) |->
                    [map |-> es[i].val, v |-> Get(v, es[i].key),
                     prefix |-> "in " \o es[i].key \o ": "]]
      [] map.t = "fn" /\ map.g = "isArrayOf" /\ IsArray(v) ->
            [i \in 1..Len(v.items) |->
                [map |-> map.map, v |-> v.items[i],
                 prefix |-> "in [" \o ToString(i - 1) \o "]: "]]
      [] map.t = "fn" /\ map.g = "isRecordOf" /\ IsPartialUnknown(v) ->
            LET es == ObjectEntries(v)
            IN  [i \in 1..Len(es) |->
                    [map |-> map.map, v |-> es[i].val,
                     prefix |-> "in " \o es[i].key \o ": "]]
      [] map.t = "fn" /\ map.g = "isTuple" /\ IsArray(v) /\ Len(v.items) >= Len(map.map) ->
            [i \in 1..Len(map.map) |->
                [map |-> map.map[i], v |-> v.items[i],
                 prefix |-> "in [" \o ToString(i - 1) \o "]: "]]
      [] map.t = "fn" /\ map.g = "isOptional" ->
            <<[map |-> map.map, v |-> v, prefix |-> ""]>>
      [] map.t = "fn" /\ map.g = "withCondition" /\ ~CheckWithMap(v, map.map.map).ret ->
            <<[map |-> map.map.map, v |-> v, prefix |-> ""]>>
      [] OTHER -> <<>>

RECURSIVE PrefixedReport(_, _)
\* the report of a rejected v: the prefixes of the levels from the outermost
\* to the level that fails by itself, then that level's own report
PrefixedReport(map, v) ==
    IF MapChildren(map, v) = <<>> THEN CheckWithMap(v, map).msgs[1]
    ELSE LET c == MapChildren(map, v)[FirstRejected(MapChildren(map, v))]
         IN  c.prefix \o PrefixedReport(c.map, c.v)

C30_OnErrorOnce ==
    last.op = "callGuard" =>
        /\ last.ok => last.onErr = <<>>
        /\ ~last.ok => last.onErr = <<PrefixedReport(last.h, last.v)>>

\* the second item of the first item of an array is rejected, two levels down
C30_Witness ==
    /\ last.op = "callGuard" /\ last.idx = 1
    /\ last.h = MapFn("isArrayOf", MapFn("isArrayOf", MapName("string")))
    /\ ~last.ok
    /\ last.onErr = <<"in [0]: in [1]: Expected string, got number">>


====
